---- MODULE Spec2Model ----
(***************************************************************************)
(* Model of the forecasting engine of TroyMai/szhb:                        *)
(*   predictionService.js      (generatePrediction, detectTimeInterval,    *)
(*                              linearRegression,                          *)
(*                              validateModelDataRequirements)             *)
(*   predictionController.js   (predict)                                   *)
(*   localDataService.js       (getTimeSeriesData)                         *)
(*   predictionModels/*.js     (movingAverage, exponentialSmoothing,       *)
(*                              polynomialRegression, arima)               *)
(*                                                                         *)
(* JavaScript numbers are modelled as exact rationals <<n, d>> in lowest   *)
(* terms with d > 0, extended by the three IEEE specials a division by     *)
(* zero produces: NaN = <<0,0>>, +Infinity = <<1,0>>, -Infinity = <<-1,0>>.*)
(* Rounding of binary floating point is not modelled.                      *)
(***************************************************************************)
EXTENDS Integers, Sequences, FiniteSets, TLC

VARIABLES
    heap,      \* the caller's historicalData array (shared by the calls in flight)
    rows,      \* rows of the data file read by getTimeSeriesData
    call       \* per call: position, arguments, locals, outcome, trace of routines

vars == <<heap, rows, call>>

-----------------------------------------------------------------------------
(* Numbers *)

\* `const x = e; ... x ...': e is evaluated once and F reads its value
Bind(e, F(_)) == CHOOSE r \in {F(x) : x \in {e}} : TRUE

\* the same for two operands
Bind2(d, e, F(_, _)) == CHOOSE r \in {F(x, y) : x \in {d}, y \in {e}} : TRUE

Abs(x) == IF x < 0 THEN -x ELSE x

Sign(x) == IF x < 0 THEN -1 ELSE IF x > 0 THEN 1 ELSE 0

RECURSIVE Gcd(_, _)
Gcd(a, b) == Bind2(a, b, LAMBDA x, y : IF y = 0 THEN x ELSE Gcd(y, x % y))

NaN == <<0, 0>>

PosInf == <<1, 0>>

NegInf == <<-1, 0>>

\* the number n / d
Rat(n, d) ==
    Bind2(n, d, LAMBDA x, y :
        IF y = 0 THEN <<Sign(x), 0>>
        ELSE Bind(Gcd(Abs(x), Abs(y)), LAMBDA g :
                 IF y < 0 THEN <<(-x) \div g, (-y) \div g>> ELSE <<x \div g, y \div g>>))

Num(i) == <<i, 1>>

Zero == <<0, 1>>

IsNaN(x) == x = NaN

IsFinite(x) == x[2] # 0

IsInteger(x) == x[2] = 1

\* x + y
Add(a, b) ==
    Bind2(a, b, LAMBDA x, y :
        IF IsNaN(x) \/ IsNaN(y) THEN NaN
        ELSE IF ~IsFinite(x) /\ ~IsFinite(y) THEN (IF x = y THEN x ELSE NaN)
        ELSE IF ~IsFinite(x) THEN x
        ELSE IF ~IsFinite(y) THEN y
        ELSE Bind(Gcd(x[2], y[2]), LAMBDA g :
                 Rat(x[1] * (y[2] \div g) + y[1] * (x[2] \div g), (x[2] \div g) * y[2])))

Neg(x) == Bind(x, LAMBDA v : <<-v[1], v[2]>>)

\* x - y
Sub(x, y) == Add(x, Neg(y))

\* x * y
Mul(a, b) ==
    Bind2(a, b, LAMBDA x, y :
        IF IsNaN(x) \/ IsNaN(y) THEN NaN
        ELSE IF ~IsFinite(x) \/ ~IsFinite(y) THEN <<Sign(x[1]) * Sign(y[1]), 0>>
        ELSE Bind2(Gcd(Abs(x[1]), y[2]), Gcd(Abs(y[1]), x[2]), LAMBDA g, h :
                 Rat((x[1] \div g) * (y[1] \div h), (x[2] \div h) * (y[2] \div g))))

\* x / y
Div(a, b) ==
    Bind2(a, b, LAMBDA x, y :
        IF IsNaN(x) \/ IsNaN(y) THEN NaN
        ELSE IF ~IsFinite(y) THEN (IF IsFinite(x) THEN Zero ELSE NaN)
        ELSE IF ~IsFinite(x) THEN <<x[1] * (IF y[1] < 0 THEN -1 ELSE 1), 0>>
        ELSE IF y[1] = 0 THEN <<Sign(x[1]), 0>>
        ELSE Mul(x, Rat(y[2], y[1])))

\* x < y  (false when either side is NaN)
Lt(a, b) ==
    \E x \in {a}, y \in {b} :
        IF IsNaN(x) \/ IsNaN(y) THEN FALSE
        ELSE IF ~IsFinite(x) THEN x = NegInf /\ y # NegInf
        ELSE IF ~IsFinite(y) THEN y = PosInf
        ELSE \E g \in {Gcd(x[2], y[2])} : x[1] * (y[2] \div g) < y[1] * (x[2] \div g)

Gt(x, y) == Lt(y, x)

\* Math.abs
MathAbs(x) == Bind(x, LAMBDA v : <<Abs(v[1]), v[2]>>)

\* Math.floor of a finite number, as an integer
Floor(x) == Bind(x, LAMBDA v : v[1] \div v[2])

\* s[1] + ... + s[k], added from the left
RECURSIVE SumTo(_, _)
SumTo(s, k) == IF k = 0 THEN Zero ELSE Add(SumTo(s, k - 1), s[k])

\* an array holding the elements of seq
ArrayOf(seq) == <<>> \o seq

\* the sum a reduce or a `sum +=' loop over s leaves, starting from 0
SumSeq(seq) == Bind(ArrayOf(seq), LAMBDA s : SumTo(s, Len(s)))

\* Math.pow(x, 2)
Square(x) == Bind(x, LAMBDA v : Mul(v, v))

-----------------------------------------------------------------------------
(* Outcomes of the routines.  A routine either returns a value or throws an  *)
(* Error; `ran' lists, in call order, the routines that got past their own   *)
(* argument checks and computed on the series.                               *)

Err(msg, num) == [msg |-> msg, num |-> num]

NoError == Err("", 0)

Ok(v, ran) == [ok |-> TRUE, val |-> v, err |-> NoError, ran |-> ran]

Throw(e, ran) == [ok |-> FALSE, val |-> <<>>, err |-> e, ran |-> ran]

\* data.map(d => d.value)
Values(data) == [i \in 1..Len(data) |-> data[i].value]

\* s[i] with the source's zero-based index
At(s, i) == s[i + 1]

\* s[i] of an array of numbers: an index outside the array reads undefined,
\* which is NaN in arithmetic
Elem(s, i) == IF i >= 0 /\ i < Len(s) THEN s[i + 1] ELSE NaN

\* s.slice(from, to) with the source's zero-based, end-exclusive indices; an
\* end beyond the array stops at its length
Slice(s, from, to) == SubSeq(s, from + 1, IF to > Len(s) THEN Len(s) ELSE to)

Max(a, b) == IF a > b THEN a ELSE b

Min(a, b) == IF a < b THEN a ELSE b

RECURSIVE Pow(_, _)
Pow(x, k) == IF k = 0 THEN 1 ELSE x * Pow(x, k - 1)

-----------------------------------------------------------------------------
(* predictionService.js: linearRegression *)

linearRegression(data) ==
    IF Len(data) < 2
    THEN Throw(Err("linearRegression: at least 2 data points are needed", 2), <<>>)
    ELSE Bind([n |-> Num(Len(data)),
               sumX |-> SumSeq([i \in 1..Len(data) |-> Num(i - 1)]),
               sumY |-> SumSeq([i \in 1..Len(data) |-> data[i].value]),
               sumXY |-> SumSeq([i \in 1..Len(data) |-> Mul(Num(i - 1), data[i].value)]),
               sumX2 |-> SumSeq([i \in 1..Len(data) |-> Num((i - 1) * (i - 1))])],
         LAMBDA s :
           Bind(Sub(Mul(s.n, s.sumX2), Mul(s.sumX, s.sumX)), LAMBDA denominator :
             IF denominator = Zero
             THEN Throw(Err("linearRegression: cannot compute the regression", 0), <<>>)
             ELSE Bind(Div(Sub(Mul(s.n, s.sumXY), Mul(s.sumX, s.sumY)), denominator),
                  LAMBDA slope :
                    Ok([slope |-> slope,
                        intercept |-> Div(Sub(s.sumY, Mul(slope, s.sumX)), s.n)],
                       <<"linearRegression">>))))

\* a projection that starts at x = n - 1, the last historical index
LinearPredictionsFromLast(data, periods) ==
    Bind(linearRegression(data), LAMBDA fit :
        IF ~fit.ok THEN fit
        ELSE Ok([i \in 1..periods |->
                    Add(Mul(fit.val.slope, Num(Len(data) + i - 2)), fit.val.intercept)],
                fit.ran))

\* case 'linear' of generatePrediction: y = slope * (n + i) + intercept
LinearPredictions(data, periods) ==
    Bind(linearRegression(data), LAMBDA fit :
        IF ~fit.ok THEN fit
        ELSE Ok([i \in 1..periods |->
                    Add(Mul(fit.val.slope, Num(Len(data) + i - 1)), fit.val.intercept)],
                fit.ran))

-----------------------------------------------------------------------------
(* predictionService.js: detectTimeInterval, validateModelDataRequirements *)

\* String(t).length === 6 && parseInt(t) >= 100000 && parseInt(t) <= 999999
IsYearMonth(t) == t >= 100000 /\ t <= 999999

\* (year2 - year1) * 12 + (month2 - month1)
MonthDiff(time1, time2) ==
    ((time2 \div 100) - (time1 \div 100)) * 12 + ((time2 % 100) - (time1 % 100))

\* the deltas between consecutive points with those of 0 kept
IntervalsKeepingZero(ts) ==
    SelectSeq([i \in 1..(Len(ts) - 1) |->
                  IF IsYearMonth(ts[1].time)
                  THEN MonthDiff(ts[i].time, ts[i + 1].time)
                  ELSE ts[i + 1].time - ts[i].time],
              LAMBDA d : d >= 0)

\* the positive deltas between consecutive points, in array order
Intervals(ts) ==
    SelectSeq([i \in 1..(Len(ts) - 1) |->
                  IF IsYearMonth(ts[1].time)
                  THEN MonthDiff(ts[i].time, ts[i + 1].time)
                  ELSE ts[i + 1].time - ts[i].time],
              LAMBDA d : d > 0)

Count(s, x) == Cardinality({i \in 1..Len(s) : s[i] = x})

\* Object.keys of intervalCounts lists the integer keys in ascending order, and
\* the strict > keeps the first of the most frequent: the smallest of them.
detectTimeInterval(ts) ==
    IF Len(ts) < 2 THEN 1
    ELSE Bind(Intervals(ts), LAMBDA intervals :
             IF intervals = <<>> THEN 1
             ELSE Bind({intervals[i] : i \in 1..Len(intervals)}, LAMBDA keys :
                    Bind({k \in keys :
                            \A j \in keys : Count(intervals, j) <= Count(intervals, k)},
                         LAMBDA best : CHOOSE k \in best : \A j \in best : k <= j)))

\* the requirements table of validateModelDataRequirements
requirements ==
    [linear |-> 2, exponential |-> 3, movingAverage |-> 2, polynomial |-> 3, arima |-> 20]

SupportedModels == DOMAIN requirements

\* Names every object literal inherits from Object.prototype: requirements[name]
\* is then a function (truthy), and dataLength >= function compares with NaN.
ObjectPrototypeKeys == {"toString", "constructor", "valueOf", "hasOwnProperty"}

validateModelDataRequirements(model, dataLength) ==
    IF model \in SupportedModels THEN dataLength >= requirements[model]
    ELSE IF model \in ObjectPrototypeKeys THEN FALSE
    ELSE dataLength >= 2

\* the number the controller prints in its 400 answer: requirements[model] || 2
\* (0 stands for the text of an inherited function)
MinRequiredShown(model) ==
    IF model \in SupportedModels THEN requirements[model]
    ELSE IF model \in ObjectPrototypeKeys THEN 0
    ELSE 2

-----------------------------------------------------------------------------
(* predictionModels/movingAverage.js *)

\* An unset numeric parameter (undefined, null) is written Unset.  Every use
\* the code makes of one (x || default, x === null || x < 2) treats 0 alike.
Unset == 0

\* EffectiveWindow without the cut to n - 1
EffectiveWindowUncut(n, windowSize) ==
    Bind(IF windowSize = Unset \/ windowSize < 2 THEN Max(2, n \div 3) ELSE windowSize,
         LAMBDA w : IF w > n THEN n ELSE w)

\* windowSize as simpleMovingAverage and weightedMovingAverage settle it
EffectiveWindow(n, windowSize) ==
    Bind(IF windowSize = Unset \/ windowSize < 2 THEN Max(2, n \div 3) ELSE windowSize,
         LAMBDA w : IF w >= n THEN n - 1 ELSE w)

\* avg + trend * (i + 1), i = 0..periods-1
Extrapolate(base, trend, periods) ==
    Bind2(base, trend, LAMBDA b, t : [i \in 1..periods |-> Add(b, Mul(t, Num(i)))])

\* the mean of values.slice(from, to)
WindowMean(values, from, to) == Div(SumSeq(Slice(values, from, to)), Num(to - from))

simpleMovingAverage(data, periods, windowSize) ==
    IF Len(data) < 2
    THEN Throw(Err("simpleMovingAverage: at least 2 data points are needed", 2), <<>>)
    ELSE Bind2(Values(data), EffectiveWindow(Len(data), windowSize), LAMBDA values, w :
           Bind2(Len(values), WindowMean(values, Len(values) - w, Len(values)),
             LAMBDA n, avg :
               Ok(Extrapolate(avg,
                              IF n >= w * 2
                              THEN Div(Sub(avg, WindowMean(values, n - w * 2, n - w)), Num(w))
                              ELSE Zero,
                              periods),
                  <<"simpleMovingAverage">>)))

\* WeightedSum with the weights i + 1 left undivided by their sum
WeightedSumUnnormalised(window) ==
    Bind(window, LAMBDA win : SumSeq([i \in 1..Len(win) |-> Mul(win[i], Num(i))]))

\* sum of window[i] * weights[i], weights[i] = (i + 1) / (w (w + 1) / 2)
WeightedSum(window) ==
    Bind2(window, Div(Num(Len(window) * (Len(window) + 1)), Num(2)), LAMBDA win, weightSum :
        SumSeq([i \in 1..Len(win) |-> Mul(win[i], Div(Num(i), weightSum))]))

weightedMovingAverage(data, periods, windowSize) ==
    IF Len(data) < 2
    THEN Throw(Err("weightedMovingAverage: at least 2 data points are needed", 2), <<>>)
    ELSE Bind2(Values(data), EffectiveWindow(Len(data), windowSize), LAMBDA values, w :
           Bind2(Len(values), WeightedSum(Slice(values, Len(values) - w, Len(values))),
             LAMBDA n, weightedSum :
               Ok(Extrapolate(weightedSum,
                              IF n >= w * 2
                              THEN Div(Sub(weightedSum,
                                           WeightedSum(Slice(values, n - w * 2, n - w))),
                                       Num(w))
                              ELSE Zero,
                              periods),
                  <<"weightedMovingAverage">>)))

\* smoothed[0..k-1]: smoothed[0] = values[0],
\* smoothed[i] = alpha values[i] + (1 - alpha) smoothed[i-1]
RECURSIVE SmoothTo(_, _, _)
SmoothTo(values, alpha, k) ==
    IF k <= 1 THEN SubSeq(values, 1, k)
    ELSE Bind(SmoothTo(values, alpha, k - 1), LAMBDA prev :
             Append(prev, Add(Mul(alpha, values[k]), Mul(Sub(Num(1), alpha), prev[k - 1]))))

Smooth(values, alpha) == SmoothTo(values, alpha, Len(values))

\* the default of an unset or out-of-range alpha of exponentialMovingAverage
DefaultAlpha == Rat(3, 10)

InUnitInterval(x) == Lt(Zero, x) /\ Lt(x, Num(1))

exponentialMovingAverage(data, periods, alphaParam) ==
    IF Len(data) < 2
    THEN Throw(Err("exponentialMovingAverage: at least 2 data points are needed", 2), <<>>)
    ELSE Bind2(Len(data),
               Smooth(Values(data),
                      IF InUnitInterval(alphaParam) THEN alphaParam ELSE DefaultAlpha),
           LAMBDA n, ema :
             Ok(Extrapolate(ema[n],
                            IF n >= 3 THEN Div(Sub(ema[n], ema[n - 2]), Num(2)) ELSE Zero,
                            periods),
                <<"exponentialMovingAverage">>))

\* movingAverage(data, periods, type, {windowSize, alpha})
movingAverage(data, periods, type, windowSize, alpha) ==
    IF Len(data) < 2
    THEN Throw(Err("movingAverage: at least 2 data points are needed", 2), <<>>)
    ELSE CASE type = "weighted" -> weightedMovingAverage(data, periods, windowSize)
           [] type = "exponential" -> exponentialMovingAverage(data, periods, alpha)
           [] OTHER -> simpleMovingAverage(data, periods, windowSize)

-----------------------------------------------------------------------------
(* predictionModels/exponentialSmoothing.js *)

\* for (alpha = 0.1; alpha <= 0.9; alpha += 0.1): nine candidates
AlphaGrid == [k \in 1..9 |-> Rat(k, 10)]

\* for (beta = 0.05; beta <= 0.5; beta += 0.05): ten candidates
BetaGrid == [k \in 1..10 |-> Rat(k, 20)]

\* Math.floor(values.length * 0.7)
TestStart(n) == (n * 7) \div 10

\* The scan `if (mse < bestMSE)' over the n candidates from bestMSE = Infinity
\* keeps the first candidate whose score is the least; 0 when no score is
\* below Infinity.
RECURSIVE ScanLeast(_, _, _, _, _)
ScanLeast(scores, n, k, best, bestMSE) ==
    IF k > n THEN best
    ELSE Bind(scores[k], LAMBDA mse :
             IF Lt(mse, bestMSE) THEN ScanLeast(scores, n, k + 1, k, mse)
             ELSE ScanLeast(scores, n, k + 1, best, bestMSE))

FirstLeast(scores, n) == ScanLeast(scores, n, 1, 0, PosInf)

\* mean of (values[i] - forecast[i])^2 over i = testStart..n-1
MeanSquaredError(values, forecast) ==
    Bind2(Len(values), TestStart(Len(values)), LAMBDA n, testStart :
        Div(SumSeq([k \in 1..(n - testStart) |->
                       Square(Sub(At(values, testStart + k - 1), forecast[testStart + k - 1]))]),
            Num(n - testStart)))

\* the score optimizeAlpha gives one alpha: forecast[i] = smoothed[i - 1]
AlphaScore(values, alpha) ==
    Bind(Smooth(values, alpha), LAMBDA smoothed :
        MeanSquaredError(values, [i \in 1..(Len(values) - 1) |-> At(smoothed, i - 1)]))

optimizeAlpha(values) ==
    Bind(FirstLeast([k \in 1..Len(AlphaGrid) |-> AlphaScore(values, AlphaGrid[k])],
                    Len(AlphaGrid)),
         LAMBDA best : IF best = 0 THEN Rat(3, 10) ELSE AlphaGrid[best])

\* level[0..k-1] and trend[0..k-1] of Holt's method (k >= 1):
\* level[0] = values[0], trend[0] = values[1] - values[0]
RECURSIVE HoltTo(_, _, _, _)
HoltTo(values, alpha, beta, k) ==
    IF k <= 1 THEN [level |-> <<values[1]>>, trend |-> <<Sub(values[2], values[1])>>]
    ELSE Bind(HoltTo(values, alpha, beta, k - 1), LAMBDA prev :
           Bind(Add(Mul(alpha, values[k]),
                    Mul(Sub(Num(1), alpha), Add(prev.level[k - 1], prev.trend[k - 1]))),
             LAMBDA newLevel :
               [level |-> Append(prev.level, newLevel),
                trend |-> Append(prev.trend,
                                 Add(Mul(beta, Sub(newLevel, prev.level[k - 1])),
                                     Mul(Sub(Num(1), beta), prev.trend[k - 1])))]))

Holt(values, alpha, beta) == HoltTo(values, alpha, beta, Len(values))

\* the score optimizeBeta gives one beta: forecast[i] = level[i - 1] + trend[i - 1]
BetaScore(values, alpha, beta) ==
    Bind(Holt(values, alpha, beta), LAMBDA h :
        MeanSquaredError(values,
            [i \in 1..(Len(values) - 1) |-> Add(At(h.level, i - 1), At(h.trend, i - 1))]))

optimizeBeta(values, alpha) ==
    Bind(FirstLeast([k \in 1..Len(BetaGrid) |-> BetaScore(values, alpha, BetaGrid[k])],
                    Len(BetaGrid)),
         LAMBDA best : IF best = 0 THEN Rat(1, 10) ELSE BetaGrid[best])

\* predictions.push(isNaN(predValue) ? 0 : predValue)
NaNToZero(x) == Bind(x, LAMBDA v : IF IsNaN(v) THEN Zero ELSE v)

\* x || y: 0 and NaN are falsy
Falsy(x) == Bind(x, LAMBDA v : v = Zero \/ IsNaN(v))

\* values[n - 1] || (n > 1 ? values[n - 2] : 0), then isNaN(..) ? 0 : ..
FallbackValue(values) ==
    NaNToZero(IF ~Falsy(values[Len(values)]) THEN values[Len(values)]
              ELSE IF Len(values) > 1 THEN values[Len(values) - 1] ELSE Zero)

\* the forecast of singleExponentialSmoothing once alpha is settled
SingleForecast(values, periods, alpha) ==
    Bind(Smooth(values, alpha)[Len(values)], LAMBDA lastSmoothed :
        IF IsNaN(lastSmoothed)
        THEN Bind(FallbackValue(values), LAMBDA fallbackValue :
                 [i \in 1..periods |-> fallbackValue])
        ELSE [i \in 1..periods |-> lastSmoothed])

singleExponentialSmoothing(data, periods, alphaParam) ==
    IF Len(data) < 3
    THEN Throw(Err("singleExponentialSmoothing: at least 3 data points are needed", 3), <<>>)
    ELSE Bind2(Values(data), ~InUnitInterval(alphaParam), LAMBDA values, auto :
           Bind(IF auto THEN optimizeAlpha(values) ELSE alphaParam, LAMBDA alpha :
               Ok(SingleForecast(values, periods, alpha),
                  (IF auto THEN <<"optimizeAlpha">> ELSE <<>>)
                      \o <<"singleExponentialSmoothing">>)))

\* the forecast of doubleExponentialSmoothing once alpha and beta are settled
DoubleForecast(values, periods, alpha, beta) ==
    Bind(Holt(values, alpha, beta), LAMBDA h :
        Bind2(h.level[Len(values)], h.trend[Len(values)], LAMBDA lastLevel, lastTrend :
            IF IsNaN(lastLevel) \/ IsNaN(lastTrend)
            THEN Bind(FallbackValue(values), LAMBDA fallbackValue :
                     [i \in 1..periods |-> fallbackValue])
            ELSE [i \in 1..periods |-> NaNToZero(Add(lastLevel, Mul(Num(i), lastTrend)))]))

doubleExponentialSmoothing(data, periods, alphaParam, betaParam) ==
    IF Len(data) < 3
    THEN Throw(Err("doubleExponentialSmoothing: at least 3 data points are needed", 3), <<>>)
    ELSE Bind2(Values(data),
               (IF ~InUnitInterval(alphaParam) THEN <<"optimizeAlpha">> ELSE <<>>)
                   \o (IF ~InUnitInterval(betaParam) THEN <<"optimizeBeta">> ELSE <<>>)
                   \o <<"doubleExponentialSmoothing">>,
           LAMBDA values, ran :
             Bind(IF ~InUnitInterval(alphaParam) THEN optimizeAlpha(values) ELSE alphaParam,
               LAMBDA alpha :
                 Bind(IF ~InUnitInterval(betaParam) THEN optimizeBeta(values, alpha)
                      ELSE betaParam,
                   LAMBDA beta : Ok(DoubleForecast(values, periods, alpha, beta), ran))))

\* the number of indices i, i + L, i + 2L, ... below n
PhaseCount(n, i, seasonLength) ==
    Cardinality({j \in i..(n - 1) : (j - i) % seasonLength = 0})

\* the sum of values[i], values[i + L], ...
PhaseSum(values, i, seasonLength) ==
    SumSeq([k \in 1..PhaseCount(Len(values), i, seasonLength) |->
               At(values, i + (k - 1) * seasonLength)])

\* seasonal[i] = mean of values[i], values[i + L], ..., divided by the mean of
\* those seasonLength means
InitialSeasonal(values, seasonLength) ==
    Bind(ArrayOf([i \in 1..seasonLength |->
                    Bind(PhaseCount(Len(values), i - 1, seasonLength), LAMBDA count :
                        IF count > 0
                        THEN Div(PhaseSum(values, i - 1, seasonLength), Num(count))
                        ELSE Num(1))]),
         LAMBDA raw :
           Bind(Div(SumSeq(raw), Num(seasonLength)), LAMBDA avgSeasonal :
               ArrayOf([i \in 1..seasonLength |-> Div(raw[i], avgSeasonal)])))

\* seasonal[i]; an index past the end of the array reads undefined, and a
\* number divided by undefined is NaN
SeasonalAt(seasonal, i) == IF i < Len(seasonal) THEN At(seasonal, i) ELSE NaN

\* level, trend and seasonal after the loop body has run for index i (i = 0:
\* the initial values; trend[0] divides by seasonal[seasonLength])
RECURSIVE TripleState(_, _, _, _, _, _)
TripleState(values, seasonLength, alpha, beta, gamma, i) ==
    IF i = 0
    THEN Bind(InitialSeasonal(values, seasonLength), LAMBDA seasonal :
           Bind(Div(At(values, 0), SeasonalAt(seasonal, 0)), LAMBDA level0 :
             [level |-> level0,
              trend |-> Div(Sub(Div(At(values, seasonLength),
                                    SeasonalAt(seasonal, seasonLength)),
                                level0),
                            Num(seasonLength)),
              seasonal |-> seasonal]))
    ELSE Bind(TripleState(values, seasonLength, alpha, beta, gamma, i - 1), LAMBDA prev :
           Bind2(At(prev.seasonal, i % seasonLength),
                 Add(Mul(alpha, Div(At(values, i), At(prev.seasonal, i % seasonLength))),
                     Mul(Sub(Num(1), alpha), Add(prev.level, prev.trend))),
             LAMBDA prevSeasonal, newLevel :
               [level |-> newLevel,
                trend |-> Add(Mul(beta, Sub(newLevel, prev.level)),
                              Mul(Sub(Num(1), beta), prev.trend)),
                seasonal |-> [prev.seasonal EXCEPT ![(i % seasonLength) + 1] =
                                 Add(Mul(gamma, Div(At(values, i), newLevel)),
                                     Mul(Sub(Num(1), gamma), prevSeasonal))]]))

\* seasonal[(n + i) % seasonLength] || 1
SeasonalFactor(seasonal, index) ==
    Bind(At(seasonal, index), LAMBDA f : IF Falsy(f) THEN Num(1) ELSE f)

\* called by exponentialSmoothing without alpha, beta, gamma: 0.3, 0.1, 0.3
tripleExponentialSmoothing(data, periods, seasonLength) ==
    IF Len(data) < seasonLength * 2
    THEN Throw(Err("tripleExponentialSmoothing: at least 2 full seasons are needed",
                   seasonLength * 2), <<>>)
    ELSE Bind2(Values(data),
               TripleState(Values(data), seasonLength, Rat(3, 10), Rat(1, 10), Rat(3, 10),
                           Len(data) - 1),
           LAMBDA values, last :
             IF IsNaN(last.level) \/ IsNaN(last.trend)
             THEN Bind(FallbackValue(values), LAMBDA fallbackValue :
                      Ok([i \in 1..periods |-> fallbackValue],
                         <<"tripleExponentialSmoothing">>))
             ELSE Ok([i \in 1..periods |->
                         NaNToZero(Mul(Add(last.level, Mul(Num(i), last.trend)),
                                       SeasonalFactor(last.seasonal,
                                           (Len(values) + i - 1) % seasonLength)))],
                     <<"tripleExponentialSmoothing">>))

\* the largest (sign = 1) or the smallest (sign = -1) of values
Extreme(values, sign) ==
    Bind(values, LAMBDA vs :
        CHOOSE v \in {vs[i] : i \in 1..Len(vs)} :
            \A j \in 1..Len(vs) : IF sign > 0 THEN ~Lt(v, vs[j]) ELSE ~Lt(vs[j], v))

\* the slope of the least-squares line through (i, values[i])
TrendSlope(values) ==
    Bind([n |-> Num(Len(values)),
          sumX |-> SumSeq([i \in 1..Len(values) |-> Num(i - 1)]),
          sumY |-> SumSeq(values),
          sumXY |-> SumSeq([i \in 1..Len(values) |-> Mul(Num(i - 1), values[i])]),
          sumX2 |-> SumSeq([i \in 1..Len(values) |-> Num((i - 1) * (i - 1))])],
         LAMBDA s : Div(Sub(Mul(s.n, s.sumXY), Mul(s.sumX, s.sumY)),
                        Sub(Mul(s.n, s.sumX2), Mul(s.sumX, s.sumX))))

\* Math.abs(slope) > ((max - min) / n) * 0.1
detectTrend(data) ==
    Bind(Values(data), LAMBDA values :
        Gt(MathAbs(TrendSlope(values)),
           Mul(Div(Sub(Extreme(values, 1), Extreme(values, -1)), Num(Len(values))),
               Rat(1, 10))))

\* the mean of values[i], values[i + L], ...; 0 when there is none
PhaseMean(values, i, seasonLength) ==
    Bind(PhaseCount(Len(values), i, seasonLength), LAMBDA count :
        IF count = 0 THEN Zero ELSE Div(PhaseSum(values, i, seasonLength), Num(count)))

\* Math.sqrt(variance) / overallMean > 0.1, decided without the square root:
\* for a positive mean it is variance > 0.01 mean^2; a negative mean gives a
\* ratio <= 0; a zero mean gives Infinity, or NaN when the variance is 0 too.
detectSeasonality(data, seasonLength) ==
    Bind(ArrayOf([i \in 1..seasonLength |-> PhaseMean(Values(data), i - 1, seasonLength)]),
         LAMBDA seasonalMeans :
           Bind(Div(SumSeq(seasonalMeans), Num(seasonLength)), LAMBDA overallMean :
             Bind(Div(SumSeq([i \in 1..seasonLength |->
                                 Square(Sub(seasonalMeans[i], overallMean))]),
                      Num(seasonLength)),
               LAMBDA variance :
                 IF Gt(overallMean, Zero)
                 THEN Gt(variance, Mul(Rat(1, 100), Square(overallMean)))
                 ELSE overallMean = Zero /\ Gt(variance, Zero))))

\* the type exponentialSmoothing settles on
ChosenType(data, type, seasonLength) ==
    IF type # "auto" THEN type
    ELSE IF Len(data) >= seasonLength * 2 /\ detectSeasonality(data, seasonLength)
         THEN "triple"
    ELSE IF detectTrend(data) THEN "double" ELSE "single"

\* the detectors the `auto' type has run before it settles on `chosen'
Detectors(data, type, seasonLength, chosen) ==
    IF type # "auto" THEN <<>>
    ELSE IF Len(data) < seasonLength * 2 THEN <<"detectTrend">>
    ELSE IF chosen = "triple" THEN <<"detectSeasonality">>
    ELSE <<"detectSeasonality", "detectTrend">>

\* exponentialSmoothing(data, periods, type, seasonLength); the single, double
\* and triple functions are called without alpha, beta or gamma
exponentialSmoothing(data, periods, type, seasonLength) ==
    IF Len(data) < 3
    THEN Throw(Err("exponentialSmoothing: at least 3 data points are needed", 3), <<>>)
    ELSE Bind(ChosenType(data, type, seasonLength), LAMBDA chosen :
           Bind(CASE chosen = "double" ->
                       doubleExponentialSmoothing(data, periods, Zero, Zero)
                  [] chosen = "triple" ->
                       tripleExponentialSmoothing(data, periods, seasonLength)
                  [] OTHER -> singleExponentialSmoothing(data, periods, Zero),
             LAMBDA res :
               [res EXCEPT !.ran = Detectors(data, type, seasonLength, chosen) \o @]))

-----------------------------------------------------------------------------
(* Gaussian elimination: solveLinearSystem of polynomialRegression.js and of  *)
(* arima.js (two copies of the same text)                                     *)

\* the scan that keeps the diagonal row: no row is exchanged
ScanKeepingDiagonal(aug, i, k, maxRow) == i

\* the scan of column i below row i: maxRow moves to k when
\* Math.abs(augmented[k][i]) > Math.abs(augmented[maxRow][i])
RECURSIVE ScanMaxRow(_, _, _, _)
ScanMaxRow(aug, i, k, maxRow) ==
    IF k > Len(aug) THEN maxRow
    ELSE IF Gt(MathAbs(aug[k][i]), MathAbs(aug[maxRow][i]))
         THEN ScanMaxRow(aug, i, k + 1, k)
         ELSE ScanMaxRow(aug, i, k + 1, maxRow)

TenTo5 == 100000

\* Math.abs(x) < 1e-10, with 1e-10 written as 1 / (TenTo5 * TenTo5)
BelowPivotTolerance(x) ==
    \E v \in {x} :
        /\ IsFinite(v)
        /\ Abs(v[1]) <= v[2] \div TenTo5
        /\ Abs(v[1]) * TenTo5 < (v[2] \div TenTo5) + (IF v[2] % TenTo5 = 0 THEN 0 ELSE 1)

\* rows i and maxRow of augmented exchanged
SwapRows(aug, i, maxRow) ==
    ArrayOf([k \in 1..Len(aug) |->
                IF k = i THEN aug[maxRow] ELSE IF k = maxRow THEN aug[i] ELSE aug[k]])

\* augmented[k][j] -= factor * augmented[i][j] for j = i..n
EliminateRow(row, pivotRow, i) ==
    Bind(Div(row[i], pivotRow[i]), LAMBDA factor :
        ArrayOf([j \in 1..Len(row) |->
                    IF j < i THEN row[j] ELSE Sub(row[j], Mul(factor, pivotRow[j]))]))

\* the elimination of column i from the rows k > i
EliminateBelow(aug, i) ==
    ArrayOf([k \in 1..Len(aug) |-> IF k <= i THEN aug[k] ELSE EliminateRow(aug[k], aug[i], i)])

\* the forward elimination from column i on; ok = FALSE when a pivot is
\* below the tolerance
RECURSIVE ForwardEliminate(_, _)
ForwardEliminate(augmented, i) ==
    Bind(augmented, LAMBDA aug :
        IF i > Len(aug) THEN [ok |-> TRUE, aug |-> aug]
        ELSE Bind(SwapRows(aug, i, ScanMaxRow(aug, i, i + 1, i)), LAMBDA swapped :
                 IF BelowPivotTolerance(swapped[i][i])
                 THEN [ok |-> FALSE, aug |-> swapped]
                 ELSE ForwardEliminate(EliminateBelow(swapped, i), i + 1)))

\* x[i] = (augmented[i][n] - sum_{j > i} augmented[i][j] x[j]) / augmented[i][i];
\* solved holds x[i+1..n]
RECURSIVE BackSubstitute(_, _, _)
BackSubstitute(aug, i, solved) ==
    IF i = 0 THEN solved
    ELSE Bind(solved, LAMBDA xs :
             BackSubstitute(aug, i - 1,
                 <<Div(Sub(aug[i][Len(aug) + 1],
                           SumSeq([j \in 1..(Len(aug) - i) |-> Mul(aug[i][i + j], xs[j])])),
                       aug[i][i])>> \o xs))

\* [A | b]
Augmented(A, b) == ArrayOf([i \in 1..Len(A) |-> Append(A[i], b[i])])

\* polynomialRegression.js
solveLinearSystem(A, b) ==
    Bind(ForwardEliminate(Augmented(A, b), 1), LAMBDA fwd :
        IF ~fwd.ok THEN Throw(Err("singular matrix", 0), <<>>)
        ELSE Ok(BackSubstitute(fwd.aug, Len(fwd.aug), <<>>), <<>>))

\* an elimination that answers a zero solution where the pivot is too small
SolveOrZeros(A, b) ==
    Bind(ForwardEliminate(Augmented(A, b), 1), LAMBDA fwd :
        IF ~fwd.ok THEN Ok([i \in 1..Len(b) |-> Zero], <<>>)
        ELSE Ok(BackSubstitute(fwd.aug, Len(fwd.aug), <<>>), <<>>))

\* arima.js
arimaSolveLinearSystem(A, b) ==
    Bind(ForwardEliminate(Augmented(A, b), 1), LAMBDA fwd :
        IF ~fwd.ok THEN Throw(Err("singular matrix", 0), <<>>)
        ELSE Ok(BackSubstitute(fwd.aug, Len(fwd.aug), <<>>), <<>>))

-----------------------------------------------------------------------------
(* predictionModels/polynomialRegression.js *)

\* A^T A of the Vandermonde matrix A[k][i] = k^i
NormalMatrix(n, degree) ==
    ArrayOf([i \in 1..(degree + 1) |-> ArrayOf([j \in 1..(degree + 1) |->
        SumSeq([k \in 1..n |-> Num(Pow(k - 1, i - 1) * Pow(k - 1, j - 1))])])])

\* A^T y
NormalVector(data, degree) ==
    ArrayOf([i \in 1..(degree + 1) |->
        SumSeq([k \in 1..Len(data) |-> Mul(Num(Pow(k - 1, i - 1)), data[k].value)])])

calculatePolynomialCoefficients(data, degree) ==
    IF Len(data) < degree + 1
    THEN Throw(Err("polynomial regression: at least degree + 1 data points are needed",
                   degree + 1), <<>>)
    ELSE solveLinearSystem(NormalMatrix(Len(data), degree), NormalVector(data, degree))

evaluatePolynomial(coeffs, x) ==
    SumSeq([i \in 1..Len(coeffs) |-> Mul(coeffs[i], Num(Pow(x, i - 1)))])

\* polynomialRegression2 and polynomialRegression3: the same text for 2 and 3
PolynomialOfDegree(data, periods, degree) ==
    Bind(calculatePolynomialCoefficients(data, degree), LAMBDA fit :
        IF ~fit.ok THEN fit
        ELSE Ok([i \in 1..periods |-> evaluatePolynomial(fit.val, Len(data) + i - 1)],
                <<"calculatePolynomialCoefficients">>))

polynomialRegression2(data, periods) == PolynomialOfDegree(data, periods, 2)

polynomialRegression3(data, periods) == PolynomialOfDegree(data, periods, 3)

\* the sum of (y[i] - yhat[i])^2 of the fit with these coefficients
ResidualSum(data, coeffs) ==
    SumSeq([i \in 1..Len(data) |->
               Square(Sub(data[i].value, evaluatePolynomial(coeffs, i - 1)))])

\* the sum of (y[i] - mean)^2
TotalSum(data) ==
    Bind(Div(SumSeq(Values(data)), Num(Len(data))), LAMBDA yMean :
        SumSeq([i \in 1..Len(data) |-> Square(Sub(data[i].value, yMean))]))

\* r2 of the in-sample fit of one degree; NaN stands for a degree whose fit threw
\* (the catch skips it, as a NaN score is skipped by r2 > bestR2)
InSampleR2(data, degree) ==
    Bind(calculatePolynomialCoefficients(data, degree), LAMBDA fit :
        IF ~fit.ok THEN NaN
        ELSE Sub(Num(1), Div(ResidualSum(data, fit.val), TotalSum(data))))

\* bestDegree with the loop ending at degree < 3: the cubic is never scored
BestDegreeOfQuadraticOnly(data) ==
    Bind(InSampleR2(data, 2), LAMBDA r2of2 : IF Gt(r2of2, NegInf) THEN 2 ELSE 2)

\* bestDegree after the loop over degree = 2, 3 (bestR2 starts at -Infinity)
BestDegree(data) ==
    Bind2(InSampleR2(data, 2), InSampleR2(data, 3), LAMBDA r2of2, r2of3 :
        IF Gt(r2of3, IF Gt(r2of2, NegInf) THEN r2of2 ELSE NegInf) THEN 3 ELSE 2)

polynomialRegressionAuto(data, periods) ==
    IF Len(data) < 4 THEN polynomialRegression2(data, periods)
    ELSE Bind(PolynomialOfDegree(data, periods, BestDegree(data)), LAMBDA res :
             [res EXCEPT !.ran = <<"polynomialRegressionAuto">> \o @])

\* degree: Unset stands for 'auto' (generatePrediction passes modelParams.degree || 'auto')
polynomialRegression(data, periods, degree) ==
    IF Len(data) < 3
    THEN Throw(Err("polynomialRegression: at least 3 data points are needed", 3), <<>>)
    ELSE CASE degree = Unset -> polynomialRegressionAuto(data, periods)
           [] degree = 2 -> polynomialRegression2(data, periods)
           [] degree = 3 -> polynomialRegression3(data, periods)
           [] OTHER -> Throw(Err("polynomialRegression: the degree must be 2, 3 or auto", 0),
                             <<>>)

-----------------------------------------------------------------------------
(* predictionModels/arima.js *)

Mean(data) == Div(SumSeq(data), Num(Len(data)))

\* the sum of (data[i] - mean)^2
SquaredDeviations(data, mean) ==
    SumSeq([i \in 1..Len(data) |-> Square(Sub(data[i], mean))])

autocorrelation(series, lag) ==
    Bind(series, LAMBDA data :
        IF lag >= Len(data) THEN Zero
        ELSE Bind(Mean(data), LAMBDA mean :
               Bind(SquaredDeviations(data, mean), LAMBDA denominator :
                   IF denominator = Zero THEN Zero
                   ELSE Div(SumSeq([i \in 1..(Len(data) - lag) |->
                                       Mul(Sub(data[i], mean), Sub(data[i + lag], mean))]),
                            denominator))))

\* one pass of the loop of difference: data[i] - data[i - order], i = order..n-1
Lagged(data, order) ==
    ArrayOf([i \in 1..Max(0, Len(data) - order) |-> Sub(data[i + order], data[i])])

RECURSIVE difference(_, _)
difference(data, order) ==
    IF order = 0 THEN ArrayOf(data)
    ELSE IF order > 1 THEN difference(Lagged(data, order), order - 1)
    ELSE Lagged(data, order)

\* result grows from a copy of originalData; after k values of diffedData each
\* new value is result[result.length - order] + diffedData[i]
RECURSIVE InverseAccumulate(_, _, _, _)
InverseAccumulate(originalData, diffedData, order, k) ==
    IF k = 0 THEN ArrayOf(originalData)
    ELSE Bind(InverseAccumulate(originalData, diffedData, order, k - 1), LAMBDA result :
             Append(result, Add(Elem(result, Len(result) - order), diffedData[k])))

\* inverseDifference returning result whole, the seed values included
InverseDifferenceKeepingSeed(originalData, diffedData, order) ==
    InverseAccumulate(originalData, diffedData, order, Len(diffedData))

inverseDifference(originalData, diffedData, order) ==
    Bind(InverseAccumulate(originalData, diffedData, order, Len(diffedData)), LAMBDA result :
        SubSeq(result, Len(originalData) + 1, Len(result)))

autoregressive(data, order) ==
    IF Len(data) < order + 1
    THEN Throw(Err("autoregressive: at least order + 1 data points are needed", order + 1),
               <<>>)
    ELSE Bind(ArrayOf([i \in 1..(order + 1) |-> autocorrelation(data, i - 1)]), LAMBDA acf :
             arimaSolveLinearSystem(
                 [i \in 1..order |-> ArrayOf([j \in 1..order |-> acf[Abs(i - j) + 1]])],
                 SubSeq(acf, 2, order + 1)))

\* history is a copy of data that has grown by k forecasts;
\* forecast = sum_j phi[j] * history[history.length - order + j]
RECURSIVE HistoryAfter(_, _, _)
HistoryAfter(data, phi, k) ==
    IF k = 0 THEN ArrayOf(data)
    ELSE Bind(HistoryAfter(data, phi, k - 1), LAMBDA history :
             Append(history,
                    SumSeq([j \in 1..Len(phi) |->
                               Mul(phi[j], history[Len(history) - Len(phi) + j])])))

arForecast(data, phi, periods) ==
    Bind(HistoryAfter(data, phi, Max(0, periods)), LAMBDA history :
        SubSeq(history, Len(data) + 1, Len(history)))

variance(data) ==
    Bind(Mean(data), LAMBDA mean : Div(SquaredDeviations(data, mean), Num(Len(data))))

\* x || dflt for a numeric parameter
OrDefault(x, dflt) == IF x = Unset THEN dflt ELSE x

autoArima(data) ==
    Bind2(ArrayOf(Values(data)), Len(data), LAMBDA values, n :
        [p |-> Min(2, n \div 10),
         d |-> IF Lt(variance(difference(values, 1)), Mul(variance(values), Rat(4, 5)))
                    /\ n >= 15
               THEN 1 ELSE 0,
         q |-> Min(1, n \div 15)])

\* arima once p, d, q are settled and the two size checks have passed
ArimaForecast(values, periods, p, d) ==
    Bind(difference(values, d), LAMBDA diffedValues :
        Bind(autoregressive(diffedValues, p), LAMBDA phi :
            IF ~phi.ok THEN phi
            ELSE Ok(inverseDifference(Slice(values, 0, d),
                                      arForecast(diffedValues, phi.val, periods), d),
                    <<"arima">>)))

\* an arima without its size checks, repeating the last value
arimaLastValue(data, periods, params) ==
    Ok([i \in 1..periods |-> data[Len(data)].value], <<"arima">>)

arima(data, periods, params) ==
    IF Len(data) < 20
    THEN Throw(Err("arima: at least 20 data points are needed", 20), <<>>)
    ELSE Bind([p |-> OrDefault(params.p, 2), d |-> OrDefault(params.d, 1),
               q |-> OrDefault(params.q, 1)],
         LAMBDA o :
           IF Len(data) < o.p + o.d + o.q + 5
           THEN Throw(Err("arima: not enough data points for ARIMA(p,d,q)",
                          o.p + o.d + o.q + 5), <<>>)
           ELSE ArimaForecast(ArrayOf(Values(data)), periods, o.p, o.d))

\* case 'arima' of generatePrediction
ArimaPredictions(data, periods, mp) ==
    IF mp.p # Unset \/ mp.d # Unset \/ mp.q # Unset
    THEN arima(data, periods,
               [p |-> OrDefault(mp.p, 2), d |-> OrDefault(mp.d, 1), q |-> OrDefault(mp.q, 1)])
    ELSE Bind(arima(data, periods, autoArima(data)), LAMBDA res :
             [res EXCEPT !.ran = <<"autoArima">> \o @])

-----------------------------------------------------------------------------
(* localDataService.js: getTimeSeriesData *)

\* x is put behind every element whose time is <= x.time: Array.prototype.sort
\* is stable, so rows of equal repp keep their order
InsertByTime(sorted, x) ==
    Bind(Cardinality({i \in 1..Len(sorted) : sorted[i].time <= x.time}), LAMBDA k :
        SubSeq(sorted, 1, k) \o <<x>> \o SubSeq(sorted, k + 1, Len(sorted)))

\* the first k rows, sorted
RECURSIVE SortedPrefix(_, _)
SortedPrefix(s, k) ==
    IF k = 0 THEN <<>>
    ELSE Bind(SortedPrefix(s, k - 1), LAMBDA sorted : InsertByTime(sorted, s[k]))

\* filteredData.sort((a, b) => (a.repp || 0) - (b.repp || 0))
SortByTime(s) == SortedPrefix(s, Len(s))

\* The rows of the file that pass the filter, sorted by time and mapped to
\* {time: repp, value: parseFloat(data2) || 0}; a row is written as the point
\* it maps to.
getTimeSeriesData(fileRows) ==
    Bind(SortByTime(fileRows), LAMBDA sorted :
        [i \in 1..Len(sorted) |->
            [time |-> sorted[i].time, value |-> NaNToZero(sorted[i].value)]])

-----------------------------------------------------------------------------
(* predictionService.js: generatePrediction, step by step *)

\* an error as the caller sees it: the message, the number the message states
\* (0: none) and, for the error generatePrediction rethrows, the message of
\* the error it caught
Failure(msg, num, cause) == [msg |-> msg, num |-> num, cause |-> cause]

NoFailure == Failure("", 0, "")

InsufficientHistory == Failure("at least 2 historical data points are needed", 2, "")

InvalidPeriods == Failure("the number of periods must be greater than 0", 0, "")

\* `model ${model} prediction failed: ${error.message}`
ModelError(e) == Failure("model prediction failed", e.num, e.msg)

\* an array argument: null/undefined, or the items of the array
NullArray == [isNull |-> TRUE, items |-> <<>>]

Array(items) == [isNull |-> FALSE, items |-> items]

\* the two checks at the head of generatePrediction, in their order
GenerateValidate(historicalData, periods) ==
    IF historicalData.isNull \/ Len(historicalData.items) < 2 THEN InsufficientHistory
    ELSE IF periods <= 0 THEN InvalidPeriods
    ELSE NoFailure

\* modelParams; a string parameter that is not given is ""
NoParams ==
    [type |-> "", windowSize |-> Unset, alpha |-> Zero, seasonLength |-> Unset,
     degree |-> Unset, p |-> Unset, d |-> Unset, q |-> Unset]

\* modelParams.type || 'auto'
TypeOrAuto(mp) == IF mp.type = "" THEN "auto" ELSE mp.type

\* the switch (model) of generatePrediction
ModelPredictions(data, periods, model, mp) ==
    CASE model = "linear" -> LinearPredictions(data, periods)
      [] model = "exponential" ->
            exponentialSmoothing(data, periods, TypeOrAuto(mp), OrDefault(mp.seasonLength, 12))
      [] model = "movingAverage" ->
            movingAverage(data, periods, TypeOrAuto(mp), mp.windowSize, mp.alpha)
      [] model = "polynomial" -> polynomialRegression(data, periods, mp.degree)
      [] model = "arima" -> ArimaPredictions(data, periods, mp)
      [] OTHER -> Throw(Err("unsupported prediction model", 0), <<>>)

\* a projection that adds the interval to the number itself in both formats
NextTimeWithoutCarry(lastTime, timeInterval, timeFormat, i) ==
    lastTime + timeInterval * (i + 1)

\* a projection whose carry takes the month modulo 12, so that December is 0
NextTimeWrappingAtTwelve(lastTime, timeInterval, timeFormat, i) ==
    IF timeFormat = "yearmonth"
    THEN Bind2(lastTime \div 100, (lastTime % 100) + timeInterval * (i + 1),
           LAMBDA year, nextMonth :
             IF nextMonth > 12
             THEN (year + nextMonth \div 12) * 100 + (nextMonth % 12)
             ELSE year * 100 + nextMonth)
    ELSE lastTime + timeInterval * (i + 1)

\* one projected time: lastTime moved on by timeInterval * (i + 1)
NextTime(lastTime, timeInterval, timeFormat, i) ==
    IF timeFormat = "yearmonth"
    THEN Bind2(lastTime \div 100, (lastTime % 100) + timeInterval * (i + 1),
           LAMBDA year, nextMonth :
             IF nextMonth > 12
             THEN (year + (nextMonth - 1) \div 12) * 100 + ((nextMonth - 1) % 12) + 1
             ELSE year * 100 + nextMonth)
    ELSE lastTime + timeInterval * (i + 1)

PredictionTimes(data, periods, timeInterval, timeFormat) ==
    [i \in 1..periods |-> NextTime(data[Len(data)].time, timeInterval, timeFormat, i - 1)]

\* null, in a field that otherwise holds a number
Null == <<0, -1>>

\* val === null || val === undefined || isNaN(val) ? 0 : val
ValidPrediction(val) == IF IsNaN(val) THEN Zero ELSE val

\* statistics whose growth rate is also null when the predicted value is 0
StatisticsWithoutZeroPrediction(data, predictions) ==
    Bind2(data[Len(data)].value,
          IF Len(predictions) > 0 THEN predictions[Len(predictions)] ELSE Null,
      LAMBDA lastValue, predictedValue :
        [avgValue |-> Div(SumSeq(Values(data)), Num(Len(data))),
         lastValue |-> lastValue,
         predictedValue |-> predictedValue,
         growthRate |-> IF predictedValue # Null /\ predictedValue # Zero /\ lastValue # Zero
                        THEN Mul(Div(Sub(predictedValue, lastValue), lastValue), Num(100))
                        ELSE Null,
         truncatedCount |-> 0])

Statistics(data, predictions) ==
    Bind2(data[Len(data)].value,
          IF Len(predictions) > 0 THEN predictions[Len(predictions)] ELSE Null,
      LAMBDA lastValue, predictedValue :
        [avgValue |-> Div(SumSeq(Values(data)), Num(Len(data))),
         lastValue |-> lastValue,
         predictedValue |-> predictedValue,
         growthRate |-> IF predictedValue # Null /\ lastValue # Zero
                        THEN Mul(Div(Sub(predictedValue, lastValue), lastValue), Num(100))
                        ELSE Null,
         truncatedCount |-> 0])
\* a result whose historicalData is put in ascending time order
BuildResultSortingHistory(data, predictions, predictionTimes, timeInterval, timeFormat, model) ==
    [predictions |-> [i \in 1..Len(predictions) |->
                         [time |-> predictionTimes[i],
                          value |-> ValidPrediction(predictions[i]),
                          isPrediction |-> TRUE]],
     historicalData |-> Bind(SortByTime(data), LAMBDA sorted :
                          [i \in 1..Len(sorted) |->
                              [time |-> sorted[i].time, value |-> sorted[i].value,
                               isPrediction |-> FALSE]]),
     statistics |-> Statistics(data, predictions),
     timeInterval |-> timeInterval,
     timeFormat |-> timeFormat,
     model |-> model]

\* the result object
BuildResult(data, predictions, predictionTimes, timeInterval, timeFormat, model) ==
    [predictions |-> [i \in 1..Len(predictions) |->
                         [time |-> predictionTimes[i],
                          value |-> ValidPrediction(predictions[i]),
                          isPrediction |-> TRUE]],
     historicalData |-> [i \in 1..Len(data) |->
                            [time |-> data[i].time, value |-> data[i].value,
                             isPrediction |-> FALSE]],
     statistics |-> Statistics(data, predictions),
     timeInterval |-> timeInterval,
     timeFormat |-> timeFormat,
     model |-> model]

\* String(firstTime).length === 6 && ... ? 'yearmonth' : 'year'
DetectFormat(data) == IF IsYearMonth(data[1].time) THEN "yearmonth" ELSE "year"

\* generatePrediction as one function of its arguments: what a call that runs
\* alone returns (ok, val = the result) or throws (err)
generatePrediction(historicalData, periods, model, timeInterval, timeFormat, mp) ==
    Bind2(historicalData.items, GenerateValidate(historicalData, periods), LAMBDA data, bad :
        IF bad # NoFailure THEN [ok |-> FALSE, val |-> <<>>, err |-> bad, ran |-> <<>>]
        ELSE Bind(ModelPredictions(data, periods, model, mp), LAMBDA fit :
               IF ~fit.ok
               THEN [ok |-> FALSE, val |-> <<>>, err |-> ModelError(fit.err), ran |-> fit.ran]
               ELSE [ok |-> TRUE,
                     val |-> <<BuildResult(data, fit.val,
                                   PredictionTimes(data, periods, timeInterval, timeFormat),
                                   timeInterval, timeFormat, model)>>,
                     err |-> NoFailure, ran |-> fit.ran]))

-----------------------------------------------------------------------------
(* The inputs the model draws from *)

\* the longest series whose values are enumerated exhaustively
MaxLen == 3

\* the largest number of periods asked for
MaxPeriods == 3

Calls == {1, 2}

ValueSet == {0, 1}

Point(t, v) == [time |-> t, value |-> Num(v)]

\* the year-month of month number m (months counted from year 0)
MonthTime(m) == (m \div 12) * 100 + (m % 12) + 1

TimePatterns == {"yearly", "biennial", "monthly", "semiannual", "descending", "duplicate"}

\* the time of point i (from 0) of an n-point series
PatternTime(pattern, i, n) ==
    CASE pattern = "yearly" -> 2020 + i
      [] pattern = "biennial" -> 2016 + 2 * i
      [] pattern = "monthly" -> MonthTime(2023 * 12 + 10 + i)
      [] pattern = "semiannual" -> MonthTime(2022 * 12 + 11 + 6 * i)
      [] pattern = "descending" -> 2020 + (n - 1 - i)
      [] pattern = "duplicate" -> 2020 + (i \div 2)

MkSeries(pattern, vs) ==
    Array([i \in 1..Len(vs) |-> Point(PatternTime(pattern, i - 1, Len(vs)), vs[i])])

ShortValues == UNION {[1..n -> ValueSet] : n \in 0..MaxLen}

ShortSeries == {MkSeries(pat, vs) : pat \in TimePatterns, vs \in ShortValues}

\* the series of the scenarios: values 1, 2, 3; six annual points 100..150
\* for 2018..2023 (unsorted too); the constant 5, 5, 5, 5, 5, 5
ScenarioSeries ==
    {Array([i \in 1..3 |-> Point(2019 + i, i)]),
     Array([i \in 1..6 |-> Point(2017 + i, 90 + 10 * i)]),
     Array([i \in 1..6 |-> Point(2024 - i, 160 - 10 * i)]),
     Array([i \in 1..6 |-> Point(2017 + i, 5)])}

LongShapes == {"constant", "linear", "wave", "step"}

\* the value of point i (from 0) of a long series
ShapeValue(shape, i) ==
    CASE shape = "constant" -> 5
      [] shape = "linear" -> 3 + 2 * i
      [] shape = "wave" -> <<1, 1, 2, 0, 1>>[(i % 5) + 1] + i
      [] shape = "step" -> <<0, 0, 2, 2, 0>>[(i % 5) + 1]

LongSeries ==
    {Array([i \in 1..n |-> Point(1999 + i, ShapeValue(shape, i - 1))]) :
        n \in {15, 20}, shape \in LongShapes}

Series == {NullArray} \cup ShortSeries \cup ScenarioSeries \cup LongSeries

PeriodChoices == (-1)..MaxPeriods

ModelChoices == SupportedModels \cup {"prophet", "toString"}

\* the models a series is given to: the long and the scenario series go to the
\* models whose exact arithmetic stays within 32-bit integers
Admissible(series, model) ==
    \/ series \in {NullArray} \cup ShortSeries
    \/ series \in ScenarioSeries /\ model \notin {"exponential", "polynomial", "arima"}
    \/ series \in LongSeries /\ model \notin {"exponential", "polynomial"}

ParamChoices(model) ==
    CASE model = "exponential" ->
            {NoParams, [NoParams EXCEPT !.type = "double"], [NoParams EXCEPT !.type = "triple"],
             [NoParams EXCEPT !.type = "triple", !.seasonLength = 1],
             [NoParams EXCEPT !.type = "single", !.alpha = Rat(1, 2)]}
      [] model = "movingAverage" ->
            {NoParams, [NoParams EXCEPT !.type = "weighted", !.windowSize = 2],
             [NoParams EXCEPT !.type = "exponential", !.alpha = Rat(1, 2)]}
      [] model = "polynomial" ->
            {NoParams, [NoParams EXCEPT !.degree = 3], [NoParams EXCEPT !.degree = 4]}
      [] model = "arima" -> {NoParams, [NoParams EXCEPT !.p = 1]}
      [] OTHER -> {NoParams}

-----------------------------------------------------------------------------
(* The calls *)

IdleCall ==
    [pc |-> "Idle", path |-> "", periods |-> 0, model |-> "", params |-> NoParams,
     timeInterval |-> 0, timeFormat |-> "", data |-> <<>>, given |-> NullArray,
     predictions |-> <<>>, times |-> <<>>, ran |-> <<>>,
     error |-> NoFailure, status |-> 0, result |-> <<>>,
     confidenceLevel |-> Zero, testSize |-> Zero, evaluation |-> <<>>,
     matrix |-> <<>>, vector |-> <<>>]

Init ==
    /\ heap = Array(<<>>)
    /\ rows = <<>>
    /\ call = [c \in Calls |-> IdleCall]

AllIdle == \A c \in Calls : call[c].pc = "Idle"

\* the array generatePrediction reads: the caller's array on a direct call,
\* the array getTimeSeriesData returned on the controller's call
Hist(c) == IF call[c].path = "direct" THEN heap ELSE Array(call[c].data)

\* The environment: a caller builds its array / the data file holds these rows.
Provide(series) ==
    /\ AllIdle
    /\ heap' = series
    /\ rows' = series.items
    /\ UNCHANGED call

\* A caller calls generatePrediction(heap, periods, model, interval, format,
\* {modelParams}) with the interval and the format it detected, as predict does.
StartDirect(c, periods, model, mp) ==
    /\ call[c].pc = "Idle"
    /\ Admissible(heap, model)
    /\ call' = [call EXCEPT ![c] =
                  [IdleCall EXCEPT !.pc = "Validate", !.path = "direct",
                                   !.periods = periods, !.model = model, !.params = mp,
                                   !.given = heap,
                                   !.timeInterval = IF heap.isNull THEN 1
                                                    ELSE detectTimeInterval(heap.items),
                                   !.timeFormat = IF heap.isNull \/ heap.items = <<>>
                                                  THEN "year" ELSE DetectFormat(heap.items)]]
    /\ UNCHANGED <<heap, rows>>

\* POST /api/prediction/predict with {period, model, modelParams}
StartPredict(c, period, model, mp) ==
    /\ call[c].pc = "Idle"
    /\ Admissible(Array(rows), model)
    /\ call' = [call EXCEPT ![c] =
                  [IdleCall EXCEPT !.pc = "CheckParams", !.path = "controller",
                                   !.periods = period, !.model = model, !.params = mp,
                                   !.given = Array(rows)]]
    /\ UNCHANGED <<heap, rows>>

Fail(c, err, status) ==
    call' = [call EXCEPT ![c].pc = "Failed", ![c].error = err, ![c].status = status]

\* predict: if (!period || period <= 0) answer 400
PredictCheckParams(c) ==
    /\ call[c].pc = "CheckParams"
    /\ IF call[c].periods <= 0
       THEN Fail(c, InvalidPeriods, 400)
       ELSE call' = [call EXCEPT ![c].pc = "Fetch"]
    /\ UNCHANGED <<heap, rows>>

\* predict: await getTimeSeriesData; fewer than 2 points: answer 400
PredictFetch(c) ==
    /\ call[c].pc = "Fetch"
    /\ \E timeSeriesData \in {getTimeSeriesData(rows)} :
           IF Len(timeSeriesData) < 2
           THEN Fail(c, InsufficientHistory, 400)
           ELSE call' = [call EXCEPT ![c].pc = "DetectFormat", ![c].data = timeSeriesData]
    /\ UNCHANGED <<heap, rows>>

\* predict: the time format, then validateModelDataRequirements or 400
PredictDetectFormat(c) ==
    /\ call[c].pc = "DetectFormat"
    /\ IF validateModelDataRequirements(call[c].model, Len(call[c].data))
       THEN call' = [call EXCEPT ![c].pc = "DetectInterval",
                                 ![c].timeFormat = DetectFormat(call[c].data)]
       ELSE Fail(c, Failure("the model needs at least this many data points",
                            MinRequiredShown(call[c].model), ""), 400)
    /\ UNCHANGED <<heap, rows>>

\* predict: detectTimeInterval, then the call of generatePrediction
PredictDetectInterval(c) ==
    /\ call[c].pc = "DetectInterval"
    /\ call' = [call EXCEPT ![c].pc = "Validate",
                            ![c].timeInterval = detectTimeInterval(call[c].data)]
    /\ UNCHANGED <<heap, rows>>

\* the status of the answer when generatePrediction throws: predict's catch
\* answers 500 with error.message; a direct caller gets the exception
ThrownStatus(c) == IF call[c].path = "controller" THEN 500 ELSE 0

\* generatePrediction: the checks of historicalData and periods
Validate(c) ==
    /\ call[c].pc = "Validate"
    /\ \E bad \in {GenerateValidate(Hist(c), call[c].periods)} :
           IF bad # NoFailure
           THEN Fail(c, bad, ThrownStatus(c))
           ELSE call' = [call EXCEPT ![c].pc = "Dispatch"]
    /\ UNCHANGED <<heap, rows>>
\* a dispatch that first sorts the array it was given, in place
DispatchSortingInPlace(c) ==
    /\ call[c].pc = "Dispatch"
    /\ \E sorted \in {SortByTime(Hist(c).items)} :
         \E fit \in {ModelPredictions(sorted, call[c].periods, call[c].model,
                                      call[c].params)} :
           /\ IF fit.ok
              THEN call' = [call EXCEPT ![c].pc = "ProjectTimestamps",
                                        ![c].predictions = fit.val, ![c].ran = fit.ran]
              ELSE call' = [call EXCEPT ![c].pc = "Failed", ![c].ran = fit.ran,
                                        ![c].error = ModelError(fit.err),
                                        ![c].status = ThrownStatus(c)]
           /\ heap' = IF call[c].path = "direct" THEN Array(sorted) ELSE heap
    /\ UNCHANGED rows

\* generatePrediction: the switch over the model inside try / catch
Dispatch(c) ==
    /\ call[c].pc = "Dispatch"
    /\ \E fit \in {ModelPredictions(Hist(c).items, call[c].periods, call[c].model,
                                     call[c].params)} :
           IF fit.ok
           THEN call' = [call EXCEPT ![c].pc = "ProjectTimestamps",
                                     ![c].predictions = fit.val, ![c].ran = fit.ran]
           ELSE call' = [call EXCEPT ![c].pc = "Failed", ![c].ran = fit.ran,
                                     ![c].error = ModelError(fit.err),
                                     ![c].status = ThrownStatus(c)]
    /\ UNCHANGED <<heap, rows>>

\* generatePrediction: the prediction times
ProjectTimestamps(c) ==
    /\ call[c].pc = "ProjectTimestamps"
    /\ call' = [call EXCEPT ![c].pc = "Summarize",
                            ![c].times = PredictionTimes(Hist(c).items, call[c].periods,
                                             call[c].timeInterval, call[c].timeFormat)]
    /\ UNCHANGED <<heap, rows>>

\* generatePrediction: the statistics and the result; predict answers 200
Summarize(c) ==
    /\ call[c].pc = "Summarize"
    /\ call' = [call EXCEPT ![c].pc = "Done",
                            ![c].status = IF call[c].path = "controller" THEN 200 ELSE 0,
                            ![c].result = <<BuildResult(Hist(c).items, call[c].predictions,
                                              call[c].times, call[c].timeInterval,
                                              call[c].timeFormat, call[c].model)>>]
    /\ UNCHANGED <<heap, rows>>

\* the caller has its answer; the call's objects are dropped
Return(c) ==
    /\ call[c].pc \in {"Done", "Failed"}
    /\ call' = [call EXCEPT ![c] = IdleCall]
    /\ UNCHANGED <<heap, rows>>

Step(c) ==
    \/ PredictCheckParams(c)
    \/ PredictFetch(c)
    \/ PredictDetectFormat(c)
    \/ PredictDetectInterval(c)
    \/ Validate(c)
    \/ Dispatch(c)
    \/ ProjectTimestamps(c)
    \/ Summarize(c)
    \/ Return(c)

\* one call at a time, over all the inputs
Next ==
    \/ \E s \in Series : Provide(s)
    \/ \E per \in PeriodChoices, m \in ModelChoices :
          \E mp \in ParamChoices(m) : StartDirect(1, per, m, mp)
    \/ \E per \in PeriodChoices, m \in ModelChoices :
          \E mp \in ParamChoices(m) : StartPredict(1, per, m, mp)
    \/ Step(1)

Spec == Init /\ [][Next]_vars

-----------------------------------------------------------------------------
(* predict as one function of the request: what a request that runs alone is *)
(* answered                                                                  *)

Answer(status, error, result) == [status |-> status, error |-> error, result |-> result]

predict(fileRows, period, model, mp) ==
    IF period <= 0 THEN Answer(400, InvalidPeriods, <<>>)
    ELSE Bind(getTimeSeriesData(fileRows), LAMBDA timeSeriesData :
           IF Len(timeSeriesData) < 2 THEN Answer(400, InsufficientHistory, <<>>)
           ELSE IF ~validateModelDataRequirements(model, Len(timeSeriesData))
           THEN Answer(400, Failure("the model needs at least this many data points",
                                    MinRequiredShown(model), ""), <<>>)
           ELSE Bind(generatePrediction(Array(timeSeriesData), period, model,
                                        detectTimeInterval(timeSeriesData),
                                        DetectFormat(timeSeriesData), mp),
                  LAMBDA got :
                    IF got.ok THEN Answer(200, NoFailure, got.val)
                    ELSE Answer(500, got.err, <<>>)))

-----------------------------------------------------------------------------
(* Two calls at once on one array and one data file *)

ParSeries ==
    {MkSeries("descending", <<0, 1>>), MkSeries("yearly", <<0, 1, 1>>),
     MkSeries("monthly", <<1, 0>>), MkSeries("yearly", <<1>>)}

ParPeriods == 0..2

ParModels == {"linear", "movingAverage"}

NextPar ==
    \/ \E s \in ParSeries : Provide(s)
    \/ \E c \in Calls, per \in ParPeriods, m \in ParModels : StartDirect(c, per, m, NoParams)
    \/ \E c \in Calls, per \in ParPeriods, m \in ParModels : StartPredict(c, per, m, NoParams)
    \/ \E c \in Calls : Step(c)

SpecPar == Init /\ [][NextPar]_vars

-----------------------------------------------------------------------------
(* modelMetrics.js *)

\* the error of the four metrics when the arrays differ in length
LengthMismatch == Err("the actual and the predicted array must have the same length", 0)

\* sum += Math.abs((actual[i] - predicted[i]) / actual[i]) where actual[i] !== 0
PercentageErrors(actual, predicted) ==
    [i \in 1..Len(actual) |->
        IF actual[i] # Zero
        THEN MathAbs(Div(Sub(actual[i], predicted[i]), actual[i]))
        ELSE Zero]

\* count++ where actual[i] !== 0
NonZeroCount(actual) == Cardinality({i \in 1..Len(actual) : actual[i] # Zero})

\* calculateMAPE dividing the sum by actual.length
calculateMAPEOverAll(actual, predicted) ==
    IF Len(actual) # Len(predicted) THEN Throw(LengthMismatch, <<>>)
    ELSE IF Len(actual) = 0 THEN Ok(Zero, <<>>)
    ELSE Bind2(SumSeq(PercentageErrors(actual, predicted)), NonZeroCount(actual),
           LAMBDA sum, count :
             IF count = 0 THEN Ok(Zero, <<>>)
             ELSE Ok(Mul(Div(sum, Num(Len(actual))), Num(100)), <<>>))

calculateMAPE(actual, predicted) ==
    IF Len(actual) # Len(predicted) THEN Throw(LengthMismatch, <<>>)
    ELSE IF Len(actual) = 0 THEN Ok(Zero, <<>>)
    ELSE Bind2(SumSeq(PercentageErrors(actual, predicted)), NonZeroCount(actual),
           LAMBDA sum, count :
             IF count = 0 THEN Ok(Zero, <<>>)
             ELSE Ok(Mul(Div(sum, Num(count)), Num(100)), <<>>))

\* calculateR2 without `if (ssTot === 0) return 0'
calculateR2Unguarded(actual, predicted) ==
    IF Len(actual) # Len(predicted) THEN Throw(LengthMismatch, <<>>)
    ELSE IF Len(actual) = 0 THEN Ok(Zero, <<>>)
    ELSE Bind(Div(SumSeq(actual), Num(Len(actual))), LAMBDA meanActual :
           Ok(Sub(Num(1),
                  Div(SumSeq([i \in 1..Len(actual) |-> Square(Sub(actual[i], predicted[i]))]),
                      SumSeq([i \in 1..Len(actual) |-> Square(Sub(actual[i], meanActual))]))),
              <<>>))

calculateR2(actual, predicted) ==
    IF Len(actual) # Len(predicted) THEN Throw(LengthMismatch, <<>>)
    ELSE IF Len(actual) = 0 THEN Ok(Zero, <<>>)
    ELSE Bind(Div(SumSeq(actual), Num(Len(actual))), LAMBDA meanActual :
           Bind2(SumSeq([i \in 1..Len(actual) |-> Square(Sub(actual[i], meanActual))]),
                 SumSeq([i \in 1..Len(actual) |-> Square(Sub(actual[i], predicted[i]))]),
             LAMBDA ssTot, ssRes :
               IF ssTot = Zero THEN Ok(Zero, <<>>)
               ELSE Ok(Sub(Num(1), Div(ssRes, ssTot)), <<>>)))

-----------------------------------------------------------------------------
(* The functions of the model files and of modelMetrics.js called one by one *)
(* on the array a caller holds                                               *)

\* the values of the arrays the functions are called on
UnitValues == 0..2

UnitArrays == UNION {[1..n -> UnitValues] : n \in 0..MaxLen}

UnitSeries ==
    {MkSeries("yearly", vs) : vs \in UnitArrays} \cup ScenarioSeries \cup LongSeries

\* what the caller holds once the function has returned or thrown
Returned(c, fn, per, mp, predicted, out) ==
    call' = [call EXCEPT ![c] =
               [IdleCall EXCEPT !.pc = IF out.ok THEN "Done" ELSE "Failed",
                                !.path = "unit", !.model = fn, !.periods = per,
                                !.params = mp, !.given = heap, !.data = predicted,
                                !.predictions = out.val, !.ran = out.ran,
                                !.error = IF out.ok THEN NoFailure
                                          ELSE Failure(out.err.msg, out.err.num, "")]]

MovingAverageFunctions ==
    {"simpleMovingAverage", "weightedMovingAverage", "exponentialMovingAverage"}

WindowChoices == 0..(MaxLen + 1)

AlphaChoices == {Zero, Rat(1, 5), Rat(1, 2), Num(1)}

\* simpleMovingAverage(data, periods, windowSize), weightedMovingAverage(data,
\* periods, windowSize) or exponentialMovingAverage(data, periods, alpha)
CallMovingAverage(c, fn, per, windowSize, alpha) ==
    /\ call[c].pc = "Idle"
    /\ ~heap.isNull
    /\ IF fn = "exponentialMovingAverage"
       THEN windowSize = Unset /\ (heap \in LongSeries => alpha = Rat(1, 2))
       ELSE alpha = Zero
    /\ \E out \in {CASE fn = "simpleMovingAverage" ->
                          simpleMovingAverage(heap.items, per, windowSize)
                     [] fn = "weightedMovingAverage" ->
                          weightedMovingAverage(heap.items, per, windowSize)
                     [] OTHER -> exponentialMovingAverage(heap.items, per, alpha)} :
           Returned(c, fn, per, [NoParams EXCEPT !.windowSize = windowSize, !.alpha = alpha],
                    <<>>, out)
    /\ UNCHANGED <<heap, rows>>

\* difference(values, d)
CallDifference(c, d) ==
    /\ call[c].pc = "Idle"
    /\ ~heap.isNull
    /\ Returned(c, "difference", 0, [NoParams EXCEPT !.d = d], <<>>,
                Ok(difference(Values(heap.items), d), <<>>))
    /\ UNCHANGED <<heap, rows>>

\* inverseDifference(values.slice(0, d), diffed, d) on what difference returned
CallInverseDifference(c) ==
    /\ call[c].pc = "Done"
    /\ call[c].model = "difference"
    /\ call' = [call EXCEPT ![c].model = "inverseDifference",
                            ![c].predictions =
                                inverseDifference(Slice(Values(heap.items), 0, call[c].params.d),
                                                  call[c].predictions, call[c].params.d)]
    /\ UNCHANGED <<heap, rows>>

\* the series the AR functions are given: the first differences, as in arima
\* with d = 1, of a series of 20 points; the values themselves of a shorter one
ArInput(values) == IF Len(values) >= 20 THEN difference(values, 1) ELSE ArrayOf(values)

\* phi = autoregressive(data, p), then arForecast(data, phi, periods), for the
\* inputs whose exact fractions stay within 32-bit integers
CallArForecast(c, p, per) ==
    /\ call[c].pc = "Idle"
    /\ ~heap.isNull
    /\ heap \notin ScenarioSeries
    /\ Len(heap.items) # 15
    /\ Len(heap.items) >= 20 \/ (Len(heap.items) <= 3 /\ per <= 3)
    /\ \E data \in {ArInput(Values(heap.items))} :
         \E phi \in {autoregressive(data, p)} :
           Returned(c, "arForecast", per, [NoParams EXCEPT !.p = p], <<>>,
                    IF phi.ok THEN Ok(arForecast(data, phi.val, per), <<>>) ELSE phi)
    /\ UNCHANGED <<heap, rows>>

MetricFunctions == {"calculateMAPE", "calculateR2"}

\* calculateMAPE(actual, predicted) or calculateR2(actual, predicted) with the
\* values of the array as actual
CallMetric(c, fn, predicted) ==
    /\ call[c].pc = "Idle"
    /\ ~heap.isNull
    /\ Len(heap.items) <= MaxLen
    /\ \E actual \in {ArrayOf(Values(heap.items))}, pred \in {[i \in DOMAIN predicted |-> Num(predicted[i])]} :
         \E out \in {IF fn = "calculateMAPE" THEN calculateMAPE(actual, pred)
                     ELSE calculateR2(actual, pred)} :
           Returned(c, fn, 0, NoParams, pred, [out EXCEPT !.val = IF out.ok THEN <<out.val>> ELSE <<>>])
    /\ UNCHANGED <<heap, rows>>

NextUnit ==
    \/ \E s \in UnitSeries : Provide(s)
    \/ \E fn \in MovingAverageFunctions, per \in 1..MaxPeriods,
          windowSize \in WindowChoices, alpha \in AlphaChoices :
          CallMovingAverage(1, fn, per, windowSize, alpha)
    \/ \E d \in 0..2 : CallDifference(1, d)
    \/ CallInverseDifference(1)
    \/ \E p \in 1..2, per \in 1..MaxPeriods : CallArForecast(1, p, per)
    \/ \E fn \in MetricFunctions, predicted \in UnitArrays : CallMetric(1, fn, predicted)
    \/ Return(1)

SpecUnit == Init /\ [][NextUnit]_vars

-----------------------------------------------------------------------------
(* The functions called one at a time with arguments of the caller's making *)

UnitTimes == {2020, 2021, 2023, 2025, 202311, 202312, 202402}

\* series of up to MaxLen + 1 points in any order of time, duplicates included
TimedSeries == UNION {[1..n -> {Point(t, 0) : t \in UnitTimes}] : n \in 0..(MaxLen + 1)}

\* predict's format detection (for a series with a first point) and
\* detectTimeInterval(timeSeriesData)
CallDetectTimeInterval(c, timeSeriesData) ==
    /\ call[c].pc = "Idle"
    /\ call' = [call EXCEPT ![c] =
                  [IdleCall EXCEPT !.pc = "Done", !.path = "unit",
                                   !.model = "detectTimeInterval",
                                   !.data = timeSeriesData,
                                   !.timeFormat = IF timeSeriesData = <<>> THEN ""
                                                  ELSE DetectFormat(timeSeriesData),
                                   !.timeInterval = detectTimeInterval(timeSeriesData)]]
    /\ UNCHANGED <<heap, rows>>

\* series of annual points some of whose values are not numbers
GapValues == {NaN, Zero, Num(1)}

GapSeries ==
    {Array([i \in 1..Len(vs) |-> [time |-> 2019 + i, value |-> vs[i]]]) :
        vs \in UNION {[1..n -> GapValues] : n \in 2..MaxLen}}

\* generatePrediction(historicalData, periods, model, 1, 'year') as one call
CallGeneratePrediction(c, historicalData, periods, model) ==
    /\ call[c].pc = "Idle"
    /\ Len(historicalData.items) >= 2
    /\ \E got \in {generatePrediction(historicalData, periods, model, 1, "year", NoParams)} :
         call' = [call EXCEPT ![c] =
                    [IdleCall EXCEPT !.pc = IF got.ok THEN "Done" ELSE "Failed",
                                     !.path = "unit", !.model = model, !.periods = periods,
                                     !.timeInterval = 1, !.timeFormat = "year",
                                     !.data = historicalData.items,
                                     !.ran = got.ran, !.error = got.err,
                                     !.result = got.val]]
    /\ UNCHANGED <<heap, rows>>

(* confidenceInterval.js *)

\* the largest r in lo..hi with r * r <= k
RECURSIVE IntegerRoot(_, _, _)
IntegerRoot(k, lo, hi) ==
    IF lo >= hi THEN lo
    ELSE Bind((lo + hi + 1) \div 2, LAMBDA mid :
             IF mid * mid <= k THEN IntegerRoot(k, mid, hi) ELSE IntegerRoot(k, lo, mid - 1))

RootOf(k) == IntegerRoot(k, 0, Min(k, 46340))

\* Math.sqrt: NaN for NaN and for negatives, the exact root where it is a fraction,
\* and otherwise the root cut to a multiple of 1/1000
MathSqrt(x) ==
    IF IsNaN(x) \/ Lt(x, Zero) THEN NaN
    ELSE IF ~IsFinite(x) THEN x
    ELSE Bind2(RootOf(x[1]), RootOf(x[2]), LAMBDA rn, rd :
             IF rn * rn = x[1] /\ rd * rd = x[2] THEN Rat(rn, rd)
             ELSE Rat(RootOf((x[1] * 1000000) \div x[2]), 1000))

\* Math.max of two numbers: NaN when either is NaN
MathMax(a, b) == IF IsNaN(a) \/ IsNaN(b) THEN NaN ELSE IF Lt(a, b) THEN b ELSE a

\* { lower: Math.max(0, prediction - margin), upper: prediction + margin }
Interval(prediction, margin) ==
    [lower |-> MathMax(Zero, Sub(prediction, margin)), upper |-> Add(prediction, margin)]

\* sqrt(sum (r - meanResidual)^2 / (n - 2)) of the residuals
ResidualStandardError(residuals) ==
    Bind2(residuals, Div(SumSeq(residuals), Num(Len(residuals))), LAMBDA rs, meanResidual :
        MathSqrt(Div(SumSeq([i \in 1..Len(rs) |-> Square(Sub(rs[i], meanResidual))]),
                     Num(Len(rs) - 2))))

\* values[i] - (slope * i + intercept) of the least-squares line at x = 0..n-1
Residuals(values) ==
    Bind2(values, Num((Len(values) * (Len(values) - 1)) \div 2), LAMBDA vs, sumX :
      Bind2(SumSeq(vs), SumSeq([i \in 1..Len(vs) |-> Num((i - 1) * (i - 1))]),
        LAMBDA sumY, sumX2 :
          Bind(Div(Sub(Mul(Num(Len(vs)),
                           SumSeq([i \in 1..Len(vs) |-> Mul(Num(i - 1), vs[i])])),
                       Mul(sumX, sumY)),
                   Sub(Mul(Num(Len(vs)), sumX2), Mul(sumX, sumX))),
            LAMBDA slope :
              Bind(Div(Sub(sumY, Mul(slope, sumX)), Num(Len(vs))), LAMBDA intercept :
                [i \in 1..Len(vs) |->
                    Sub(vs[i], Add(Mul(slope, Num(i - 1)), intercept))]))))

\* sumX2 - n * meanX * meanX
Sxx(n) ==
    Bind(Div(Num((n * (n - 1)) \div 2), Num(n)), LAMBDA meanX :
        Sub(SumSeq([i \in 1..n |-> Num((i - 1) * (i - 1))]),
            Mul(Num(n), Mul(meanX, meanX))))

calculateLinearRegressionCI(historicalData, predictions, confidenceLevel) ==
    Bind2(Len(historicalData), ResidualStandardError(Residuals(Values(historicalData))),
      LAMBDA n, standardError :
        Bind2(Div(Num((n * (n - 1)) \div 2), Num(n)), Sxx(n), LAMBDA meanX, sxx :
          Bind(IF n > 30 THEN Rat(196, 100) ELSE Num(2), LAMBDA tValue :
            [i \in 1..Len(predictions) |->
                Interval(predictions[i],
                         Mul(tValue,
                             Mul(standardError,
                                 MathSqrt(Add(Add(Num(1), Rat(1, n)),
                                              Div(Square(Sub(Num(n + i - 1), meanX)),
                                                  sxx))))))])))

\* the population standard deviation of the historical values
StdDev(values) ==
    Bind2(values, Div(SumSeq(values), Num(Len(values))), LAMBDA vs, mean :
        MathSqrt(Div(SumSeq([i \in 1..Len(vs) |-> Square(Sub(vs[i], mean))]),
                     Num(Len(vs)))))

calculateSimpleCI(historicalData, predictions, confidenceLevel) ==
    LET zValue == IF confidenceLevel = Rat(95, 100) THEN Rat(196, 100) ELSE Rat(2576, 1000)
        margin == Mul(zValue, StdDev(Values(historicalData)))
    IN  Bind(margin, LAMBDA m :
            [i \in 1..Len(predictions) |-> Interval(predictions[i], m)])

\* historicalData and predictions: an array or null
calculateConfidenceInterval(historicalData, predictions, model, confidenceLevel) ==
    IF historicalData.isNull \/ Len(historicalData.items) < 2
    THEN Throw(Err("calculateConfidenceInterval: at least 2 historical points are needed",
                   2), <<>>)
    ELSE IF predictions.isNull \/ Len(predictions.items) = 0 THEN Ok(<<>>, <<>>)
    ELSE IF model = "linear"
    THEN Ok(calculateLinearRegressionCI(historicalData.items, predictions.items,
                                        confidenceLevel),
            <<"calculateLinearRegressionCI">>)
    ELSE Ok(calculateSimpleCI(historicalData.items, predictions.items, confidenceLevel),
            <<"calculateSimpleCI">>)

(* part_006: calculateMAE, calculateRMSE, backtest *)

calculateMAE(actual, predicted) ==
    IF Len(actual) # Len(predicted) THEN Throw(LengthMismatch, <<>>)
    ELSE IF Len(actual) = 0 THEN Ok(Zero, <<>>)
    ELSE Ok(Div(SumSeq([i \in 1..Len(actual) |-> MathAbs(Sub(actual[i], predicted[i]))]),
                Num(Len(actual))), <<>>)

calculateRMSE(actual, predicted) ==
    IF Len(actual) # Len(predicted) THEN Throw(LengthMismatch, <<>>)
    ELSE IF Len(actual) = 0 THEN Ok(Zero, <<>>)
    ELSE Ok(MathSqrt(Div(SumSeq([i \in 1..Len(actual) |->
                                    Square(Sub(actual[i], predicted[i]))]),
                         Num(Len(actual)))), <<>>)

\* the model functions backtest is handed: a model of the service, and two that return
\* one prediction fewer and one more than they are asked for
ModelFunctions == {"simpleMovingAverage", "onePredictionShort", "onePredictionLong"}

\* modelFunction(trainData, periods)
ApplyModelFunction(modelFunction, data, periods) ==
    CASE modelFunction = "simpleMovingAverage" -> simpleMovingAverage(data, periods, Unset)
      [] modelFunction = "onePredictionShort" -> Ok([i \in 1..(periods - 1) |-> Zero], <<>>)
      [] OTHER -> Ok([i \in 1..(periods + 1) |-> Zero], <<>>)

\* the object backtest returns; called lists the arguments modelFunction was called with
Evaluation(actual, predicted, called) ==
    Bind2(calculateMAE(actual, predicted), calculateRMSE(actual, predicted),
      LAMBDA mae, rmse :
        IF ~mae.ok THEN [mae EXCEPT !.ran = <<"modelFunction">>]
        ELSE Ok([mae |-> mae.val, rmse |-> rmse.val,
                 mape |-> calculateMAPE(actual, predicted).val,
                 r2 |-> calculateR2(actual, predicted).val,
                 actual |-> actual, predicted |-> predicted, called |-> called],
                <<"modelFunction">>))

\* testStart with the product rounded up
BacktestStartRoundedUp(n, testSize) ==
    -Floor(Neg(Mul(Num(n), Sub(Num(1), testSize))))

\* testStart = Math.floor(n * (1 - testSize))
BacktestStart(n, testSize) == Floor(Mul(Num(n), Sub(Num(1), testSize)))

\* historicalData: an array or null
backtest(historicalData, modelFunction, testSize) ==
    IF historicalData.isNull \/ Len(historicalData.items) < 5
    THEN Throw(Err("backtest: at least 5 data points are needed", 5), <<>>)
    ELSE Bind2(historicalData.items, BacktestStart(Len(historicalData.items), testSize),
           LAMBDA data, testStart :
             Bind2(Slice(data, 0, testStart), Slice(data, testStart, Len(data)),
               LAMBDA trainData, testData :
                 IF Len(trainData) < 2 \/ Len(testData) < 1
                 THEN Throw(Err("backtest: the training or the test set is too small", 2),
                            <<>>)
                 ELSE Bind(ApplyModelFunction(modelFunction, trainData, Len(testData)),
                        LAMBDA predictions :
                          IF ~predictions.ok
                          THEN [predictions EXCEPT !.ran = <<"modelFunction">>]
                          ELSE Evaluation(Values(testData), predictions.val,
                                          <<[data |-> trainData,
                                             periods |-> Len(testData)]>>))))

\* annual series of up to MaxLen + 1 points with values 0..2
FitSeries ==
    {MkSeries("yearly", vs).items : vs \in UNION {[1..n -> UnitValues] : n \in 0..(MaxLen + 1)}}

DegreeChoices == {Unset, 1, 2, 3, 4}

\* polynomialRegression(data, periods, degree), degree Unset standing for 'auto'
CallPolynomialRegression(c, data, periods, degree) ==
    /\ call[c].pc = "Idle"
    /\ \E out \in {polynomialRegression(data, periods, degree)} :
         call' = [call EXCEPT ![c] =
                    [IdleCall EXCEPT !.pc = IF out.ok THEN "Done" ELSE "Failed",
                                     !.path = "unit", !.model = "polynomialRegression",
                                     !.periods = periods,
                                     !.params = [NoParams EXCEPT !.degree = degree],
                                     !.data = data, !.predictions = out.val, !.ran = out.ran,
                                     !.error = IF out.ok THEN NoFailure
                                               ELSE Failure(out.err.msg, out.err.num, "")]]
    /\ UNCHANGED <<heap, rows>>

\* forecasts handed to calculateConfidenceInterval
ForecastValues == {Num(-3), Zero, Rat(1, 2), Num(2)}

ForecastArrays ==
    {NullArray, Array(<<Num(-3), Num(2)>>)}
        \cup {Array(ps) : ps \in UNION {[1..k -> ForecastValues] : k \in 0..1}}

HistorySeries == {NullArray} \cup {MkSeries("yearly", vs) : vs \in UnitArrays}

ConfidenceLevels == {Rat(95, 100), Rat(99, 100)}

CallConfidenceInterval(c, historicalData, predictions, model, confidenceLevel) ==
    /\ call[c].pc = "Idle"
    /\ \E out \in {calculateConfidenceInterval(historicalData, predictions, model,
                                               confidenceLevel)} :
         call' = [call EXCEPT ![c] =
                    [IdleCall EXCEPT !.pc = IF out.ok THEN "Done" ELSE "Failed",
                                     !.path = "unit", !.model = "calculateConfidenceInterval",
                                     !.params = [NoParams EXCEPT !.type = model],
                                     !.confidenceLevel = confidenceLevel,
                                     !.given = historicalData,
                                     !.data = predictions.items,
                                     !.predictions = out.val, !.ran = out.ran,
                                     !.error = IF out.ok THEN NoFailure
                                               ELSE Failure(out.err.msg, out.err.num, "")]]
    /\ UNCHANGED <<heap, rows>>

\* series of up to MaxLen + 2 points with values 0 and 2
BacktestSeries ==
    {NullArray} \cup
    {MkSeries("yearly", vs) : vs \in UNION {[1..n -> {0, 2}] : n \in 0..(MaxLen + 2)}}

TestSizes == {Zero, Rat(1, 5), Rat(1, 2), Rat(4, 5), Num(1)}

CallBacktest(c, historicalData, modelFunction, testSize) ==
    /\ call[c].pc = "Idle"
    /\ \E out \in {backtest(historicalData, modelFunction, testSize)} :
         call' = [call EXCEPT ![c] =
                    [IdleCall EXCEPT !.pc = IF out.ok THEN "Done" ELSE "Failed",
                                     !.path = "unit", !.model = "backtest",
                                     !.params = [NoParams EXCEPT !.type = modelFunction],
                                     !.testSize = testSize,
                                     !.given = historicalData,
                                     !.evaluation = IF out.ok THEN <<out.val>> ELSE <<>>,
                                     !.ran = out.ran,
                                     !.error = IF out.ok THEN NoFailure
                                               ELSE Failure(out.err.msg, out.err.num, "")]]
    /\ UNCHANGED <<heap, rows>>

\* the systems solveLinearSystem is called on: all of 1 and 2 unknowns with these
\* entries, and systems of 3 unknowns with these rows
SolverEntries == {Num(-1), Zero, Num(2)}

SolverRows == {<<Zero, Num(1), Num(1)>>, <<Num(1), Zero, Num(-2)>>,
               <<Num(2), Num(1), Zero>>, <<Zero, Zero, Zero>>}

SolverVectors == {<<Num(1), Zero, Num(-1)>>, <<Zero, Zero, Zero>>, <<Num(1), Num(2), Num(3)>>}

Systems ==
    UNION {[A : [1..n -> [1..n -> SolverEntries]], b : [1..n -> SolverEntries]] : n \in 1..2}
        \cup [A : [1..3 -> SolverRows], b : SolverVectors]

\* kernel: the file whose copy of solveLinearSystem is called
CallSolveLinearSystem(c, kernel, A, b) ==
    /\ call[c].pc = "Idle"
    /\ \E out \in {IF kernel = "arima" THEN arimaSolveLinearSystem(A, b)
                   ELSE solveLinearSystem(A, b)} :
         call' = [call EXCEPT ![c] =
                    [IdleCall EXCEPT !.pc = IF out.ok THEN "Done" ELSE "Failed",
                                     !.path = "unit", !.model = "solveLinearSystem",
                                     !.params = [NoParams EXCEPT !.type = kernel],
                                     !.matrix = A, !.vector = b,
                                     !.predictions = out.val, !.ran = out.ran,
                                     !.error = IF out.ok THEN NoFailure
                                               ELSE Failure(out.err.msg, out.err.num, "")]]
    /\ UNCHANGED <<heap, rows>>

\* the caller makes one call at a time: the arguments are drawn once it is idle
NextPure ==
    \/ /\ call[1].pc = "Idle"
       /\ \E timeSeriesData \in TimedSeries : CallDetectTimeInterval(1, timeSeriesData)
    \/ /\ call[1].pc = "Idle"
       /\ \E historicalData \in GapSeries, periods \in 1..MaxPeriods,
             model \in {"linear", "movingAverage"} :
             CallGeneratePrediction(1, historicalData, periods, model)
    \/ /\ call[1].pc = "Idle"
       /\ \E data \in FitSeries, periods \in {1, MaxPeriods}, degree \in DegreeChoices :
             CallPolynomialRegression(1, data, periods, degree)
    \/ /\ call[1].pc = "Idle"
       /\ \E historicalData \in HistorySeries, predictions \in ForecastArrays,
             model \in {"linear", "arima"}, confidenceLevel \in ConfidenceLevels :
             CallConfidenceInterval(1, historicalData, predictions, model,
                                    confidenceLevel)
    \/ /\ call[1].pc = "Idle"
       /\ \E historicalData \in BacktestSeries, modelFunction \in ModelFunctions,
             testSize \in TestSizes :
             CallBacktest(1, historicalData, modelFunction, testSize)
    \/ /\ call[1].pc = "Idle"
       /\ \E kernel \in {"polynomialRegression", "arima"}, system \in Systems :
             CallSolveLinearSystem(1, kernel, system.A, system.b)
    \/ Return(1)

SpecPure == Init /\ [][NextPure]_vars

-----------------------------------------------------------------------------
(* The properties *)

Terminal(c) == call[c].pc \in {"Done", "Failed"}

\* the series generatePrediction is called with: the caller's array, or the
\* rows of the file as getTimeSeriesData returns them
SeriesRead(c) ==
    IF call[c].path = "direct" THEN call[c].given.items
    ELSE getTimeSeriesData(call[c].given.items)

\* a time as a count of its unit: months for the year-month format, years otherwise
TimeIndex(t, timeFormat) ==
    IF timeFormat = "yearmonth" THEN (t \div 100) * 12 + (t % 100) ELSE t

SixDigits(t) == t >= 100000 /\ t <= 999999

\* C1: every call that returns a result returns exactly `periods` predictions;
\* their times go up by one detected interval each (years in the year format,
\* months in the year-month format, where the month stays within 1..12), and
\* the first is one interval after the time of the last historical point.
C1_PredictionTimes ==
    \A c \in Calls : call[c].pc = "Done" =>
        \E r \in {call[c].result[1]}, data \in {SeriesRead(c)} :
            /\ Len(r.predictions) = call[c].periods
            /\ r.timeInterval = detectTimeInterval(data)
            /\ r.timeInterval >= 1
            /\ r.timeFormat = IF SixDigits(data[1].time) THEN "yearmonth" ELSE "year"
            /\ \A k \in 1..Len(r.predictions) :
                  /\ TimeIndex(r.predictions[k].time, r.timeFormat)
                        = TimeIndex(data[Len(data)].time, r.timeFormat) + k * r.timeInterval
                  /\ r.timeFormat = "yearmonth" => (r.predictions[k].time % 100) \in 1..12

\* C1's case: a year-month series that ends in December, projected two or more
\* months on, so that the first prediction falls in the next year
C1_Witness ==
    \E c \in Calls :
        /\ call[c].pc = "Done"
        /\ call[c].timeFormat = "yearmonth"
        /\ call[c].periods >= 2
        /\ call[c].result[1].predictions[1].time \div 100
              > SeriesRead(c)[Len(SeriesRead(c))].time \div 100

\* C2: a series that reaches generatePrediction in another order than ascending
\* time gives the result its points give in ascending order.
C2_OrderEnforced ==
    \A c \in Calls : call[c].pc = "Done" =>
        \E sorted \in {SortByTime(SeriesRead(c))} :
            call[c].result = generatePrediction(Array(sorted), call[c].periods,
                                 call[c].model, detectTimeInterval(sorted),
                                 DetectFormat(sorted), call[c].params).val

\* C3: a request whose series has fewer points than the minimum of its model
\* fails, and no fit, detection or auto-parameter routine has run by then.
C3_NoComputationWhenShort ==
    \A c \in Calls :
        (/\ Terminal(c)
         /\ call[c].model \in SupportedModels
         /\ Len(call[c].given.items) < requirements[call[c].model])
        => call[c].pc = "Failed" /\ call[c].ran = <<>>

\* C4: a request with periods <= 0 fails with the invalid-periods error,
\* whatever its series, and no model function has run.
C4_InvalidPeriodsFirst ==
    \A c \in Calls :
        Terminal(c) /\ call[c].periods <= 0
        => call[c].pc = "Failed" /\ call[c].error = InvalidPeriods /\ call[c].ran = <<>>

\* the size checks of the model functions, as the call reaches them
MinimumFails(n, model, mp) ==
    \/ n < 2
    \/ model = "exponential" /\ (n < 3 \/ (mp.type = "triple"
                                         /\ n < 2 * (IF mp.seasonLength = Unset THEN 12
                                                     ELSE mp.seasonLength)))
    \/ model = "polynomial" /\ (n < 3 \/ (mp.degree = 3 /\ n < 3 + 1))
    \/ model = "arima" /\ n < 20

\* the first differences of the values are all the same number
ConstantDifferences(values) ==
    \A i \in 2..Len(values) :
        Sub(values[i], values[i - 1]) = Sub(values[2], values[1])

\* an ARIMA fit (d = 1 in every call made here) whose differenced series is
\* constant: its autocorrelations are all 0 and the Yule-Walker matrix is 0
SingularFit(data, model) ==
    model = "arima" /\ Len(data) >= 20 /\ ConstantDifferences(Values(data))

\* C5: when a model's size check fails or the elimination meets a pivot that is
\* too small, the call ends in an error and has no result: nothing is put in
\* the place of the forecast.
C5_ErrorsSurface ==
    \A c \in Calls : call[c].pc # "Idle" =>
        \E data \in {SeriesRead(c)} :
            /\ (\/ MinimumFails(Len(data), call[c].model, call[c].params)
                \/ SingularFit(data, call[c].model))
               => /\ call[c].pc \notin {"ProjectTimestamps", "Summarize", "Done"}
                  /\ call[c].result = <<>>
                  /\ call[c].predictions = <<>>
                  /\ Terminal(c) => call[c].error # NoFailure
            /\ (/\ Terminal(c)
                /\ call[c].periods >= 1
                /\ SingularFit(data, call[c].model))
               => call[c].error.cause = "singular matrix"

\* C5's case: an ARIMA call on twenty points with constant differences has
\* ended in the singular-matrix error
C5_Witness ==
    \E c \in Calls :
        /\ call[c].pc = "Failed"
        /\ SingularFit(SeriesRead(c), call[c].model)
        /\ call[c].error.cause = "singular matrix"
        /\ call[c].result = <<>>

\* C6: a model outside the five supported ones makes an otherwise valid request
\* fail with the unsupported-model error, on a direct call and through predict.
C6_UnsupportedModel ==
    \A c \in Calls :
        (/\ Terminal(c)
         /\ call[c].model \notin SupportedModels
         /\ call[c].periods >= 1
         /\ Len(call[c].given.items) >= 2)
        => /\ call[c].pc = "Failed"
           /\ call[c].error.cause = "unsupported prediction model"
           /\ call[c].result = <<>>

\* C7: the ARIMA model on 2 to 19 points, with or without p, d, q, fails with
\* the error that names the minimum of 20 points and gives no forecast: in
\* every request, and for the model functions called on the array as it is.
C7_ArimaNeedsTwenty ==
    /\ \A c \in Calls :
          (/\ Terminal(c)
           /\ call[c].model = "arima"
           /\ call[c].periods >= 1
           /\ Len(call[c].given.items) \in 2..19)
          => /\ call[c].pc = "Failed"
             /\ call[c].error.num = 20
             /\ call[c].result = <<>>
             /\ call[c].predictions = <<>>
    /\ AllIdle /\ Len(heap.items) \in 2..19
       => \A per \in PeriodChoices, mp \in ParamChoices("arima") :
             \E fit \in {ArimaPredictions(heap.items, per, mp)} :
                 ~fit.ok /\ fit.err.num = 20 /\ fit.val = <<>>

\* C7's case: fifteen points, no p, d, q, a direct call that has failed with
\* the 20-point error
C7_Witness ==
    \E c \in Calls :
        /\ call[c].pc = "Failed"
        /\ call[c].path = "direct"
        /\ call[c].model = "arima"
        /\ call[c].params = NoParams
        /\ Len(call[c].given.items) = 15
        /\ call[c].error.num = 20

\* C8: on a series whose values lie on a line over the index, the linear model
\* predicts the points of that line: 1, 2, 3 gives 4, 5; 100..150 for
\* 2018..2023 gives 160, 170, 180 for 2024..2026 and a growth rate of 20.
C8_LinearExact ==
    \A c \in Calls : call[c].pc = "Done" /\ call[c].model = "linear" =>
        \E r \in {call[c].result[1]}, vs \in {ArrayOf(Values(SeriesRead(c)))} :
            /\ ConstantDifferences(vs)
               => \A k \in 1..Len(r.predictions) :
                     r.predictions[k].value
                        = Add(vs[Len(vs)], Mul(Num(k), Sub(vs[2], vs[1])))
            /\ vs = <<Num(1), Num(2), Num(3)>> /\ call[c].periods = 2
               => Values(r.predictions) = <<Num(4), Num(5)>>
            /\ (/\ vs = <<Num(100), Num(110), Num(120), Num(130), Num(140), Num(150)>>
                /\ SeriesRead(c)[1].time = 2018
                /\ call[c].periods = 3)
               => /\ r.predictions
                        = <<[time |-> 2024, value |-> Num(160), isPrediction |-> TRUE],
                            [time |-> 2025, value |-> Num(170), isPrediction |-> TRUE],
                            [time |-> 2026, value |-> Num(180), isPrediction |-> TRUE]>>
                  /\ r.statistics.growthRate = Num(20)

\* C8's case: the six annual points 100..150 projected three periods on
C8_Witness ==
    \E c \in Calls :
        /\ call[c].pc = "Done"
        /\ call[c].model = "linear"
        /\ call[c].periods = 3
        /\ Len(SeriesRead(c)) = 6
        /\ SeriesRead(c)[1] = Point(2018, 100)
        /\ SeriesRead(c)[6] = Point(2023, 150)

\* what the call of c returns or throws when it runs alone on what it was given
Alone(c) ==
    IF call[c].path = "direct"
    THEN Bind(generatePrediction(call[c].given, call[c].periods, call[c].model,
                                 call[c].timeInterval, call[c].timeFormat, call[c].params),
           LAMBDA got : Answer(0, got.err, got.val))
    ELSE predict(call[c].given.items, call[c].periods, call[c].model, call[c].params)

C10_HistoryEchoed ==
    \A c \in Calls : call[c].pc = "Done" =>
        \E r \in {call[c].result[1]}, data \in {SeriesRead(c)} :
            /\ Len(r.historicalData) = Len(data)
            /\ \A i \in 1..Len(data) :
                  r.historicalData[i]
                     = [time |-> data[i].time, value |-> data[i].value,
                        isPrediction |-> FALSE]
            /\ \A k \in 1..Len(r.predictions) : r.predictions[k].isPrediction = TRUE

\* C10's case: an unsorted series of three points and two or more predictions
C10_Witness ==
    \E c \in Calls :
        /\ call[c].pc = "Done"
        /\ call[c].path = "direct"
        /\ Len(call[c].given.items) >= 3
        /\ call[c].given.items # SortByTime(call[c].given.items)
        /\ call[c].periods >= 2
        /\ Len(call[c].result[1].historicalData) >= 3

\* C11: in every result, statistics.avgValue is the mean of the historical
\* values, statistics.lastValue is the value of the last historical point, and
\* statistics.growthRate is (predictedValue - lastValue) / lastValue * 100 when
\* lastValue is not 0 (so -100 for a predicted value of 0) and null when it is 0.
C11_Statistics ==
    \A c \in Calls : call[c].pc = "Done" =>
        \E st \in {call[c].result[1].statistics},
           vs \in {ArrayOf(Values(SeriesRead(c)))},
           ps \in {call[c].result[1].predictions} :
            /\ Mul(st.avgValue, Num(Len(vs))) = SumTo(vs, Len(vs))
            /\ st.lastValue = vs[Len(vs)]
            /\ st.predictedValue = ps[Len(ps)].value
            /\ st.lastValue = Zero => st.growthRate = Null
            /\ st.lastValue # Zero
               => /\ st.growthRate # Null
                  /\ Mul(st.growthRate, st.lastValue)
                        = Mul(Sub(st.predictedValue, st.lastValue), Num(100))
                  /\ st.predictedValue = Zero => st.growthRate = Num(-100)

\* C11's case: the last predicted value is 0 and the last historical value is not
C11_Witness ==
    \E c \in Calls :
        /\ call[c].pc = "Done"
        /\ call[c].result[1].statistics.predictedValue = Zero
        /\ call[c].result[1].statistics.lastValue # Zero
        /\ call[c].result[1].statistics.growthRate = Num(-100)

\* a series whose values are all the same
ConstantValues(values) == \A i \in 1..Len(values) : values[i] = values[1]

\* C12: for a constant series of two or more points with value c, whatever the
\* window size or alpha and whatever the horizon, simpleMovingAverage,
\* weightedMovingAverage and exponentialMovingAverage each return c for every
\* period.
C12_ConstantForecast ==
    \A c \in Calls :
        /\ Terminal(c)
        /\ call[c].model \in MovingAverageFunctions
        /\ Len(call[c].given.items) >= 2
        /\ ConstantValues(Values(call[c].given.items))
        => /\ call[c].pc = "Done"
           /\ Len(call[c].predictions) = call[c].periods
           /\ \A i \in 1..Len(call[c].predictions) :
                  call[c].predictions[i] = call[c].given.items[1].value

\* C12's case: weightedMovingAverage over six points of value 5 with a window
\* of three, so that the trend between two windows is computed, for two or
\* more periods
C12_Witness ==
    \E c \in Calls :
        /\ call[c].pc = "Done"
        /\ call[c].model = "weightedMovingAverage"
        /\ call[c].params.windowSize = 3
        /\ Len(call[c].given.items) = 6
        /\ ConstantValues(Values(call[c].given.items))
        /\ call[c].periods >= 2
        /\ call[c].predictions[2] = Num(5)

\* C13: for a series values of two or more points, inverseDifference seeded
\* with the first value and given difference(values, 1) returns the values from
\* the second to the last: differencing with d = 1 and then inverting it
\* reconstructs the series.
C13_RoundTrip ==
    \A c \in Calls :
        /\ call[c].pc = "Done"
        /\ call[c].model = "inverseDifference"
        /\ call[c].params.d = 1
        /\ Len(call[c].given.items) >= 2
        => \E values \in {ArrayOf(Values(call[c].given.items))} :
               call[c].predictions = SubSeq(values, 2, Len(values))

\* C13's case: a series of three or more points whose values go up and down,
\* differenced once and reconstructed
C13_Witness ==
    \E c \in Calls :
        /\ call[c].pc = "Done"
        /\ call[c].model = "inverseDifference"
        /\ call[c].params.d = 1
        /\ Len(call[c].given.items) >= 3
        /\ Len(call[c].predictions) = Len(call[c].given.items) - 1
        /\ \E i, j \in 2..Len(call[c].given.items) :
              /\ Lt(call[c].given.items[i - 1].value, call[c].given.items[i].value)
              /\ Lt(call[c].given.items[j].value, call[c].given.items[j - 1].value)

\* the arguments of a call of calculateMAPE or calculateR2 that returned
MetricReturned(c, fn) == call[c].pc = "Done" /\ call[c].model = fn

\* C14 as stated, for one or more values: calculateR2 returns 1 whenever
\* predicted equals actual element by element, and 0 whenever the actual values
\* are constant.
C14_AsStated ==
    \A c \in Calls : MetricReturned(c, "calculateR2") /\ call[c].given.items # <<>> =>
        \E actual \in {ArrayOf(Values(call[c].given.items))} :
            /\ call[c].data = actual => call[c].predictions = <<Num(1)>>
            /\ ConstantValues(actual) => call[c].predictions = <<Zero>>

\* C14: calculateR2 returns 1 when predicted equals actual element by element
\* and the actual values are not all the same, and returns 0 (a finite number)
\* whenever the actual values are all the same or there are none, a perfect
\* fit included.
C14_R2 ==
    \A c \in Calls : MetricReturned(c, "calculateR2") =>
        \E actual \in {ArrayOf(Values(call[c].given.items))} :
            /\ Len(call[c].predictions) = 1
            /\ call[c].data = actual /\ ~ConstantValues(actual)
               => call[c].predictions = <<Num(1)>>
            /\ ConstantValues(actual) => call[c].predictions = <<Zero>>

\* C14's case: two or more actual values, all the same, and predicted values
\* that differ from them: 1 - ssRes / ssTot would divide by 0
C14_Witness ==
    \E c \in Calls :
        /\ MetricReturned(c, "calculateR2")
        /\ Len(call[c].given.items) >= 2
        /\ ConstantValues(Values(call[c].given.items))
        /\ call[c].data # ArrayOf(Values(call[c].given.items))
        /\ call[c].predictions = <<Zero>>

\* the positions of actual whose value is not 0, in order
NonZeroPositions(actual) ==
    SelectSeq([i \in 1..Len(actual) |-> i], LAMBDA i : actual[i] # Zero)

\* C15: calculateMAPE returns the mean of |actual - predicted| / |actual| * 100
\* over the positions whose actual value is not 0 (the others count neither in
\* the sum nor in the divisor), and 0 when every actual value is 0.
C15_MAPE ==
    \A c \in Calls : MetricReturned(c, "calculateMAPE") =>
        \E actual \in {ArrayOf(Values(call[c].given.items))},
           predicted \in {call[c].data} :
            \E at \in {NonZeroPositions(actual)} :
                /\ Len(call[c].predictions) = 1
                /\ at = <<>> => call[c].predictions[1] = Zero
                /\ at # <<>> =>
                     Mul(call[c].predictions[1], Num(Len(at)))
                       = SumSeq([k \in 1..Len(at) |->
                                   Mul(Div(MathAbs(Sub(actual[at[k]], predicted[at[k]])),
                                           MathAbs(actual[at[k]])),
                                       Num(100))])

\* C15's case: three actual values, one of them 0 and predicted wrongly, and a
\* wrong prediction at a non-zero one too
C15_Witness ==
    \E c \in Calls :
        /\ MetricReturned(c, "calculateMAPE")
        /\ Len(call[c].given.items) = 3
        /\ \E i, j \in 1..3 :
              /\ call[c].given.items[i].value = Zero
              /\ call[c].data[i] # Zero
              /\ call[c].given.items[j].value # Zero
              /\ call[c].data[j] # call[c].given.items[j].value
        /\ call[c].predictions # <<Zero>>

\* C16: a request goes through validation, format detection, interval
\* detection, dispatch, prediction times, summary and Done in that order; a
\* model is dispatched only after the checks of periods and of the two-point
\* minimum have passed; a request fails only at a validation step or at
\* dispatch, and a failure at dispatch is a model error carrying the message of
\* its cause; after dispatch has returned predictions the steps to Done cannot
\* fail. (predict's checks of period and of the number of points, made before
\* format detection, count as validation like generatePrediction's own.)
C16_StateOrder ==
    [][\A c \in Calls : call'[c].pc # call[c].pc =>
          /\ call'[c].pc = "DetectInterval" => call[c].pc = "DetectFormat"
          /\ call'[c].pc = "Dispatch"
             => /\ call[c].pc = "Validate"
                /\ call[c].periods > 0
                /\ ~Hist(c).isNull /\ Len(Hist(c).items) >= 2
                /\ call[c].path = "controller" => call[c].timeFormat # ""
          /\ call'[c].pc = "ProjectTimestamps"
             => call[c].pc = "Dispatch" /\ Len(call'[c].predictions) = call[c].periods
          /\ call'[c].pc = "Summarize" => call[c].pc = "ProjectTimestamps"
          /\ call'[c].pc = "Done" => call[c].pc = "Summarize" /\ Len(call'[c].result) = 1
          /\ call[c].pc \in {"ProjectTimestamps", "Summarize"} => call'[c].pc # "Failed"
          /\ call'[c].pc = "Failed"
             => \/ call[c].pc \in {"CheckParams", "Fetch", "Validate"}
                \/ /\ call[c].pc = "Dispatch"
                   /\ call'[c].error.msg = "model prediction failed"
                   /\ call'[c].error.cause # ""
    ]_vars

\* the forecast differences of an arima call that returned with d = 1: the AR
\* model fitted on the first differences of the values, run for periods steps
ForecastDifferences(c) ==
    Bind(difference(ArrayOf(Values(Hist(c).items)), 1), LAMBDA diffedValues :
        arForecast(diffedValues,
                   autoregressive(diffedValues, OrDefault(call[c].params.p, 2)).val,
                   call[c].periods))

\* C17: arima inverts the differencing by cumulative summation seeded from the
\* last original value (d = 1): the first forecast is the last historical
\* value plus the first forecast difference, and each later forecast is the
\* previous forecast plus the next forecast difference.
C17_SeededFromLast ==
    \A c \in Calls :
        /\ call[c].pc = "Done"
        /\ call[c].model = "arima"
        /\ OrDefault(call[c].params.d, 1) = 1
        => \E fd \in {ForecastDifferences(c)}, values \in {ArrayOf(Values(Hist(c).items))} :
              /\ Len(call[c].predictions) = Len(fd)
              /\ call[c].predictions[1] = Add(values[Len(values)], fd[1])
              /\ \A k \in 2..Len(fd) :
                    call[c].predictions[k] = Add(call[c].predictions[k - 1], fd[k])

\* an arima call made without p, d and q, which returned
AutoArimaReturned(c) ==
    /\ call[c].pc = "Done"
    /\ call[c].model = "arima"
    /\ call[c].params.p = Unset /\ call[c].params.d = Unset /\ call[c].params.q = Unset

\* C18: with model 'arima' and no p/d/q, the differencing applied is the one
\* autoArima chooses, with p = min(2, floor(n/10)) and q = min(1, floor(n/15)):
\* when it chooses d = 0 the forecasts are those of the AR model fitted on the
\* undifferenced values, and when it chooses d = 1 those of the AR model fitted
\* on the first differences, summed up again.
C18_AutoOrderApplied ==
    \A c \in Calls : AutoArimaReturned(c) =>
        \E values \in {ArrayOf(Values(Hist(c).items))}, o \in {autoArima(Hist(c).items)} :
            /\ o.p = Min(2, Len(values) \div 10)
            /\ o.q = Min(1, Len(values) \div 15)
            /\ o.d = 1 => Ok(call[c].predictions, <<"arima">>)
                             = ArimaForecast(values, call[c].periods, o.p, 1)
            /\ o.d = 0 => \E phi \in {autoregressive(values, o.p)} :
                             /\ phi.ok
                             /\ call[c].predictions
                                   = arForecast(values, phi.val, call[c].periods)

\* C19: difference(values, d) takes the first difference d times: for d = 2
\* each result is value[i] - 2 value[i-1] + value[i-2]; the result has n - d
\* values for d in 0..2.
C19_Difference ==
    \A c \in Calls :
        /\ call[c].pc = "Done"
        /\ call[c].model = "difference"
        /\ Len(call[c].given.items) >= call[c].params.d
        => \E values \in {ArrayOf(Values(call[c].given.items))}, out \in {call[c].predictions} :
              /\ Len(out) = Len(values) - call[c].params.d
              /\ call[c].params.d = 0 => out = values
              /\ call[c].params.d = 1
                 => \A i \in 1..Len(out) : out[i] = Sub(values[i + 1], values[i])
              /\ call[c].params.d = 2
                 => \A i \in 1..Len(out) :
                       out[i] = Add(Sub(values[i + 2], Mul(Num(2), values[i + 1])), values[i])

\* C20: arForecast applies the coefficients in lag order: phi[k-1] multiplies
\* the value k steps before the point being forecast, and each forecast joins
\* the history used for the next.
C20_LagOrder ==
    \A c \in Calls :
        /\ call[c].pc = "Done"
        /\ call[c].model = "arForecast"
        => \E data \in {ArInput(Values(call[c].given.items))} :
             \E phi \in {autoregressive(data, call[c].params.p).val},
                history \in {data \o call[c].predictions} :
                 /\ Len(call[c].predictions) = call[c].periods
                 /\ \A i \in 1..call[c].periods :
                       call[c].predictions[i]
                         = SumSeq([k \in 1..Len(phi) |->
                                     Mul(phi[k], history[Len(data) + i - k])])

\* the times generatePrediction has projected for call c
Projected(c) == call[c].pc \in {"Summarize", "Done"} /\ call[c].path # "unit"

\* C21: in the year-month format, when the last historical time has a month in
\* 1..12, projected time i (from 0) is a year-month with a month in 1..12 that
\* lies interval * (i + 1) months after the last time, the carry going into the
\* year; in the year format it is lastTime + interval * (i + 1).
C21_ProjectedTimes ==
    \A c \in Calls : Projected(c) =>
        \E lastTime \in {Hist(c).items[Len(Hist(c).items)].time},
           interval \in {call[c].timeInterval} :
            /\ Len(call[c].times) = call[c].periods
            /\ call[c].timeFormat = "year"
               => \A k \in 1..Len(call[c].times) : call[c].times[k] = lastTime + interval * k
            /\ call[c].timeFormat = "yearmonth" /\ (lastTime % 100) \in 1..12
               => \A k \in 1..Len(call[c].times) :
                     /\ (call[c].times[k] % 100) \in 1..12
                     /\ (call[c].times[k] \div 100) * 12 + (call[c].times[k] % 100)
                           = (lastTime \div 100) * 12 + (lastTime % 100) + interval * k

\* C21's case: a year-month series with an interval of six months, projected
\* into the December of a later year
C21_Witness ==
    \E c \in Calls :
        /\ Projected(c)
        /\ call[c].timeFormat = "yearmonth"
        /\ call[c].timeInterval = 6
        /\ \E k \in 1..Len(call[c].times) :
              /\ call[c].times[k] % 100 = 12
              /\ call[c].times[k] \div 100 > Hist(c).items[Len(Hist(c).items)].time \div 100

\* the deltas between consecutive points of ts that are above 0: months when the
\* first time has six digits, the difference of the numbers otherwise
PositiveDeltas(ts) ==
    SelectSeq([i \in 1..(Len(ts) - 1) |->
                  TimeIndex(ts[i + 1].time, IF SixDigits(ts[1].time) THEN "yearmonth" ELSE "year")
                    - TimeIndex(ts[i].time, IF SixDigits(ts[1].time) THEN "yearmonth" ELSE "year")],
              LAMBDA d : d > 0)

\* C22: detectTimeInterval returns a most frequent delta among the strictly
\* positive deltas between consecutive points (months for a year-month series,
\* years otherwise; zero and negative deltas are left out), and 1 when no delta
\* is positive or there are fewer than 2 points; the series is year-month
\* exactly when its first time is a six-digit integer in 100000..999999.
C22_ModalInterval ==
    \A c \in Calls : call[c].pc = "Done" /\ call[c].model = "detectTimeInterval" =>
        \E ts \in {call[c].data}, interval \in {call[c].timeInterval} :
            \E deltas \in {PositiveDeltas(ts)} :
                /\ ts # <<>> => (call[c].timeFormat = "yearmonth" <=> SixDigits(ts[1].time))
                /\ deltas = <<>> => interval = 1
                /\ deltas # <<>>
                   => /\ \E i \in 1..Len(deltas) : deltas[i] = interval
                      /\ \A i \in 1..Len(deltas) :
                            Cardinality({j \in 1..Len(deltas) : deltas[j] = deltas[i]})
                              <= Cardinality({j \in 1..Len(deltas) : deltas[j] = interval})

\* C22's case: four points in ascending time whose most frequent delta is
\* neither the first delta nor the smallest
C22_Witness ==
    \E c \in Calls :
        /\ call[c].pc = "Done"
        /\ call[c].model = "detectTimeInterval"
        /\ \E deltas \in {PositiveDeltas(call[c].data)} :
              /\ Len(deltas) = 3
              /\ deltas[1] < call[c].timeInterval
              /\ deltas[2] = call[c].timeInterval
              /\ deltas[3] = call[c].timeInterval

\* the final level and trend of the smoothing function that ran for call c
\* (single smoothing has a level only)
FinalSmoothed(c) ==
    Bind(ArrayOf(Values(Hist(c).items)), LAMBDA values :
        IF \E k \in 1..Len(call[c].ran) : call[c].ran[k] = "tripleExponentialSmoothing"
        THEN Bind(TripleState(values, OrDefault(call[c].params.seasonLength, 12),
                              Rat(3, 10), Rat(1, 10), Rat(3, 10), Len(values) - 1),
               LAMBDA last : <<last.level, last.trend>>)
        ELSE IF \E k \in 1..Len(call[c].ran) : call[c].ran[k] = "doubleExponentialSmoothing"
        THEN Bind(optimizeAlpha(values), LAMBDA alpha :
               Bind(Holt(values, alpha, optimizeBeta(values, alpha)), LAMBDA h :
                   <<h.level[Len(values)], h.trend[Len(values)]>>))
        ELSE <<Smooth(values, optimizeAlpha(values))[Len(values)], Zero>>)

\* C23: in single, double and triple exponential smoothing, when the final
\* level or trend is NaN the forecast is the last historical value for every
\* period (0 when that value is 0, not the value before it), and no prediction
\* is NaN or infinite.
C23_FallbackToLast ==
    \A c \in Calls : call[c].pc = "Done" /\ call[c].model = "exponential" =>
        \E final \in {FinalSmoothed(c)}, values \in {ArrayOf(Values(Hist(c).items))} :
            /\ \A i \in 1..Len(call[c].predictions) : IsFinite(call[c].predictions[i])
            /\ IsNaN(final[1]) \/ IsNaN(final[2])
               => \A i \in 1..Len(call[c].predictions) :
                     call[c].predictions[i] = values[Len(values)]

\* call c returned from single exponential smoothing
SingleReturned(c) ==
    /\ call[c].pc = "Done"
    /\ call[c].model = "exponential"
    /\ \E k \in 1..Len(call[c].ran) : call[c].ran[k] = "singleExponentialSmoothing"

\* C24: for the exponential model a parameter is estimated only when it is
\* unset: with modelParams.alpha strictly between 0 and 1 single smoothing
\* runs its recurrence with that alpha; with alpha unset it runs with the
\* result of optimizeAlpha, a candidate of the grid in (0, 1) whose one-step
\* squared error over the indices floor(0.7 n)..n-1 is the least, or 0.3.
C24_SuppliedAlphaUsed ==
    \A c \in Calls : SingleReturned(c) =>
        \E values \in {ArrayOf(Values(Hist(c).items))} :
            /\ InUnitInterval(call[c].params.alpha)
               => call[c].predictions
                     = SingleForecast(values, call[c].periods, call[c].params.alpha)
            /\ ~InUnitInterval(call[c].params.alpha)
               => \E alpha \in {AlphaGrid[k] : k \in 1..Len(AlphaGrid)} \cup {Rat(3, 10)} :
                     /\ InUnitInterval(alpha)
                     /\ \A k \in 1..Len(AlphaGrid) :
                           ~Lt(AlphaScore(values, AlphaGrid[k]), AlphaScore(values, alpha))
                     /\ call[c].predictions = SingleForecast(values, call[c].periods, alpha)

\* C25: in every result with one or more predictions, statistics.predictedValue
\* is the value of the last entry of result.predictions, also when that entry
\* is the 0 put in place of a value that is not a number, and growthRate is
\* computed from that value.
C25_PredictedValueIsLastEntry ==
    \A c \in Calls : call[c].pc = "Done" /\ Len(call[c].result) = 1 =>
        \E r \in {call[c].result[1]} :
            Len(r.predictions) > 0 =>
                \E last \in {r.predictions[Len(r.predictions)].value} :
                    /\ r.statistics.predictedValue = last
                    /\ r.statistics.lastValue # Zero
                       => r.statistics.growthRate
                             = Mul(Div(Sub(last, r.statistics.lastValue),
                                       r.statistics.lastValue), Num(100))


\* the degree the auto mode is to use on data of 4 or more points: 3 exactly when the
\* in-sample R2 of the cubic is defined and higher than that of the quadratic
HigherR2Degree(data) ==
    LET res2 == ResidualSum(data, calculatePolynomialCoefficients(data, 2).val)
        res3 == ResidualSum(data, calculatePolynomialCoefficients(data, 3).val)
    IN  IF TotalSum(data) # Zero /\ Lt(res3, res2) THEN 3 ELSE 2

PolynomialCalled(c) == call[c].path = "unit" /\ call[c].model = "polynomialRegression"

\* C26: polynomialRegression fails below 3 points, for degree 3 on exactly 3 points (4
\* are needed) and for a degree other than 2, 3 or auto; degree 2 succeeds from 3 points;
\* auto on 3 points is the quadratic through them, the selection loop not entered; auto
\* on 4 or more points is the forecast of the degree with the higher in-sample R2,
\* degree 2 on a tie or when R2 is undefined
C26_PolynomialDegree ==
    \A c \in Calls :
        (PolynomialCalled(c) /\ call[c].pc \in {"Done", "Failed"}) =>
            LET data == call[c].data
                n == Len(data)
                degree == call[c].params.degree
                per == call[c].periods
            IN  /\ n < 3 => call[c].pc = "Failed" /\ call[c].error.num = 3
                /\ (n >= 3 /\ degree \notin {Unset, 2, 3}) =>
                       call[c].pc = "Failed" /\ call[c].error.num = 0
                /\ (n = 3 /\ degree = 3) => call[c].pc = "Failed" /\ call[c].error.num = 4
                /\ (n >= 3 /\ degree = 2) =>
                       /\ call[c].pc = "Done"
                       /\ call[c].predictions = PolynomialOfDegree(data, per, 2).val
                /\ (n >= 4 /\ degree = 3) =>
                       /\ call[c].pc = "Done"
                       /\ call[c].predictions = PolynomialOfDegree(data, per, 3).val
                /\ (n = 3 /\ degree \in {Unset, 2}) =>
                       /\ call[c].pc = "Done"
                       /\ call[c].ran = <<"calculatePolynomialCoefficients">>
                       /\ call[c].predictions[1] =
                              Add(Sub(data[1].value, Mul(Num(3), data[2].value)),
                                  Mul(Num(3), data[3].value))
                /\ (n >= 4 /\ degree = Unset) =>
                       /\ call[c].pc = "Done"
                       /\ call[c].ran[1] = "polynomialRegressionAuto"
                       /\ call[c].predictions =
                              PolynomialOfDegree(data, per, HigherR2Degree(data)).val

\* auto mode on 4 points that no quadratic fits: the cubic is used
C26_Witness ==
    \E c \in Calls :
        /\ PolynomialCalled(c) /\ call[c].pc = "Done"
        /\ call[c].params.degree = Unset /\ Len(call[c].data) = 4
        /\ HigherR2Degree(call[c].data) = 3
        /\ call[c].predictions = PolynomialOfDegree(call[c].data, call[c].periods, 3).val
        /\ call[c].predictions # PolynomialOfDegree(call[c].data, call[c].periods, 2).val


\* the plain or linearly weighted mean of values[first..last] (1-based, inside the series)
MeanOver(values, first, last, weighted) ==
    LET w == last - first + 1
    IN  IF weighted
        THEN Div(SumSeq([k \in 1..w |-> Mul(values[first + k - 1], Num(k))]),
                 Rat(w * (w + 1), 2))
        ELSE Div(SumSeq([k \in 1..w |-> values[first + k - 1]]), Num(w))

\* C27: simple and weighted moving average on n >= 2 points use the window w = the
\* supplied size when it is >= 2, else max(2, floor(n/3)), capped at n - 1; 1 <= w <= n-1;
\* the forecast of period i is the mean of the last w values plus (i + 1) times the
\* trend, which is (last mean - mean of the w values before) / w when n >= 2w and 0
\* otherwise
C27_WindowAndTrend ==
    \A c \in Calls :
        (/\ call[c].path = "unit"
         /\ call[c].model \in {"simpleMovingAverage", "weightedMovingAverage"}
         /\ call[c].pc \in {"Done", "Failed"}
         /\ Len(call[c].given.items) >= 2) =>
            LET values == Values(call[c].given.items)
                n == Len(values)
                size == call[c].params.windowSize
                chosen == IF size >= 2 THEN size ELSE IF n \div 3 > 2 THEN n \div 3 ELSE 2
                w == IF chosen > n - 1 THEN n - 1 ELSE chosen
                weighted == call[c].model = "weightedMovingAverage"
                last == MeanOver(values, n - w + 1, n, weighted)
                trend == IF n >= 2 * w
                         THEN Div(Sub(last, MeanOver(values, n - 2 * w + 1, n - w, weighted)),
                                  Num(w))
                         ELSE Zero
            IN  /\ call[c].pc = "Done"
                /\ 1 <= w /\ w <= n - 1
                /\ n - w + 1 >= 1
                /\ n >= 2 * w => n - 2 * w + 1 >= 1
                /\ Len(call[c].predictions) = call[c].periods
                /\ \A i \in 1..call[c].periods :
                       call[c].predictions[i] = Add(last, Mul(trend, Num(i)))

\* a window of 2 or more that fits twice into the series, with a trend that is not 0
C27_Witness ==
    \E c \in Calls :
        /\ call[c].path = "unit" /\ call[c].model = "weightedMovingAverage"
        /\ call[c].pc = "Done" /\ call[c].periods >= 2
        /\ call[c].params.windowSize >= 2
        /\ Len(call[c].given.items) >= 2 * call[c].params.windowSize
        /\ call[c].predictions[2] # call[c].predictions[1]


ConfidenceIntervalCalled(c) ==
    call[c].path = "unit" /\ call[c].model = "calculateConfidenceInterval"

\* C28: calculateConfidenceInterval returns one {lower, upper} per prediction with
\* 0 <= lower <= upper, for every model, for negative predictions and for the linear
\* path on exactly 2 historical points
C28_WellFormedIntervals ==
    \A c \in Calls :
        (ConfidenceIntervalCalled(c) /\ call[c].pc = "Done") =>
            /\ Len(call[c].predictions) = Len(call[c].data)
            /\ \A i \in 1..Len(call[c].predictions) :
                   \E interval \in {call[c].predictions[i]} :
                       /\ ~IsNaN(interval.lower) /\ ~IsNaN(interval.upper)
                       /\ ~Lt(interval.lower, Zero)
                       /\ ~Lt(interval.upper, interval.lower)


BacktestCalled(c) == call[c].path = "unit" /\ call[c].model = "backtest"

\* C29: backtest splits the series at floor(n * (1 - testSize)) into a training prefix
\* and a test suffix that together are the series; the model function is called once,
\* with the prefix and the length of the suffix; actual is the suffix's values; the call
\* fails exactly when n < 5, when the prefix has fewer than 2 points or the suffix none,
\* or when the model returns a number of predictions other than the suffix's length
C29_ChronologicalSplit ==
    \A c \in Calls :
        (BacktestCalled(c) /\ call[c].pc \in {"Done", "Failed"}) =>
            LET items == call[c].given.items
                n == Len(items)
                ratio == call[c].testSize
                split == (n * (ratio[2] - ratio[1])) \div ratio[2]
                train == SubSeq(items, 1, split)
                test == SubSeq(items, split + 1, n)
                tooFew == call[c].given.isNull \/ n < 5
                badSplit == split < 2 \/ n - split < 1
                miscounted == call[c].params.type # "simpleMovingAverage"
            IN  /\ call[c].pc = "Failed" <=> (tooFew \/ badSplit \/ miscounted)
                /\ tooFew => call[c].error.num = 5
                /\ (~tooFew /\ badSplit) => call[c].error.num = 2
                /\ (~tooFew /\ ~badSplit /\ miscounted) =>
                       /\ call[c].error.msg = LengthMismatch.msg
                       /\ call[c].ran = <<"modelFunction">>
                /\ call[c].pc = "Done" =>
                       \E e \in {call[c].evaluation[1]} :
                           /\ train \o test = items
                           /\ e.called = <<[data |-> train, periods |-> Len(test)]>>
                           /\ e.actual = [i \in 1..Len(test) |-> test[i].value]
                           /\ Len(e.predicted) = Len(test)
                           /\ e.predicted =
                                  simpleMovingAverage(train, Len(test), Unset).val

\* 5 points split in the middle: 2 to train on, 3 to test against, values not all equal
C29_Witness ==
    \E c \in Calls :
        /\ BacktestCalled(c) /\ call[c].pc = "Done"
        /\ Len(call[c].given.items) = 5 /\ call[c].testSize = Rat(1, 2)
        /\ \E e \in {call[c].evaluation[1]} :
               /\ Len(e.called[1].data) = 2 /\ e.called[1].periods = 3
               /\ Len(e.actual) = 3
               /\ e.actual[1] = call[c].given.items[3].value
               /\ e.actual[1] # e.actual[3]
               /\ e.mae # Zero


SolverCalled(c) == call[c].path = "unit" /\ call[c].model = "solveLinearSystem"

\* the determinant of a matrix of 1, 2 or 3 rows
Determinant(A) ==
    CASE Len(A) = 1 -> A[1][1]
      [] Len(A) = 2 -> Sub(Mul(A[1][1], A[2][2]), Mul(A[1][2], A[2][1]))
      [] OTHER ->
           Add(Sub(Mul(A[1][1], Sub(Mul(A[2][2], A[3][3]), Mul(A[2][3], A[3][2]))),
                   Mul(A[1][2], Sub(Mul(A[2][1], A[3][3]), Mul(A[2][3], A[3][1])))),
               Mul(A[1][3], Sub(Mul(A[2][1], A[3][2]), Mul(A[2][2], A[3][1]))))

====
